---- MODULE Spec2Model ----
(***************************************************************************)
(* LLM Court debate engine: state manager, agent and judge consensus,      *)
(* candidate selection, the round runner and the orchestrator loop.        *)
(*                                                                         *)
(* Representation.  A text is a sequence of one-character strings.  A      *)
(* position ID is a sequence of hex digits (0..15).  A confidence is a     *)
(* whole number of hundredths (0..100); a threshold is a fraction          *)
(* <<num, den>>; a mean is kept as the fraction <<sum, count>>.  Sums and  *)
(* products are exact, where the source computes in binary floating point. *)
(***************************************************************************)
EXTENDS Integers, Sequences, FiniteSets, TLC

VARIABLES
    session,        \* StateManager._session
    now,            \* the wall clock read by new Date()
    pc,             \* where runDebate stands
    config,         \* the DebateConfig of the run
    checkpoint,     \* the data of the checkpoint file of the session
    output,         \* the DebateOutput returned by runDebate
    call,           \* the last call observed and how it ended
    roundInput,     \* DebateRoundInput of the round being run
    agentState,     \* per agent: progress of runAgent in the round being run
    roundResult,    \* the RoundResult returned by runDebateRound
    fnIn,           \* arguments of a function call
    fnOut           \* its return value

vars == <<session, now, pc, config, checkpoint, output, call,
          roundInput, agentState, roundResult, fnIn, fnOut>>

runVars == <<session, now, pc, config, checkpoint, output, call>>

roundVars == <<roundInput, agentState, roundResult>>

-----------------------------------------------------------------------------
(* Null values.  JavaScript null is kept apart from the empty string.      *)

NullId == <<-1>>
NullText == <<"null">>
NullTime == -1
None == [kind |-> "none"]
NoCall == [op |-> "none", arg |-> "none", error |-> "none"]

POSITION_ID_LENGTH == 12

\* JavaScript truthiness of a string-or-null position ID and text
TruthyId(s) == s # NullId /\ s # <<>>
TruthyText(s) == s # NullText /\ s # <<>>

\* text ?? d
TextOrElse(x, d) == IF x = NullText THEN d ELSE x

-----------------------------------------------------------------------------
(* generatePositionId                                                      *)

Whitespace == {" ", "\t", "\n"}

ToLowerCase(ch) ==
    CASE ch = "A" -> "a"
      [] ch = "B" -> "b"
      [] ch = "C" -> "c"
      [] OTHER -> ch

RECURSIVE TrimStart(_)
TrimStart(t) ==
    IF t # <<>> /\ Head(t) \in Whitespace THEN TrimStart(Tail(t)) ELSE t

RECURSIVE TrimEnd(_)
TrimEnd(t) ==
    IF t # <<>> /\ t[Len(t)] \in Whitespace
    THEN TrimEnd(SubSeq(t, 1, Len(t) - 1))
    ELSE t

Trim(t) == TrimEnd(TrimStart(t))

\* text.replace(/\s+/g, " ")
RECURSIVE CollapseWhitespace(_)
CollapseWhitespace(t) ==
    IF t = <<>> THEN <<>>
    ELSE IF Head(t) \in Whitespace
         THEN <<" ">> \o CollapseWhitespace(TrimStart(t))
         ELSE <<Head(t)>> \o CollapseWhitespace(Tail(t))

Normalize(t) ==
    LET c == CollapseWhitespace(Trim(t))
    IN  [i \in 1..Len(c) |-> ToLowerCase(c[i])]

\* createHash("sha256").update(s).digest("hex"): the leading 16 hex digits
\* of the SHA-256 digests of the normalized texts the model uses.
Sha256Hex(s) ==
    CASE s = <<"a", "b">> ->
            <<15, 11, 8, 14, 2, 0, 15, 12, 2, 14, 4, 12, 3, 15, 2, 4>>
      [] s = <<"c">> ->
            <<2, 14, 7, 13, 2, 12, 0, 3, 10, 9, 5, 0, 7, 10, 14, 2>>
      [] s = <<>> ->
            <<14, 3, 11, 0, 12, 4, 4, 2, 9, 8, 15, 12, 1, 12, 1, 4>>

generatePositionId(text) ==
    SubSeq(Sha256Hex(Normalize(text)), 1, POSITION_ID_LENGTH)

\* a.localeCompare(b) on lower-case hex strings: -1, 0 or 1
RECURSIVE localeCompare(_, _)
localeCompare(a, b) ==
    IF a = <<>> /\ b = <<>> THEN 0
    ELSE IF a = <<>> THEN -1
    ELSE IF b = <<>> THEN 1
    ELSE IF Head(a) < Head(b) THEN -1
    ELSE IF Head(a) > Head(b) THEN 1
    ELSE localeCompare(Tail(a), Tail(b))

-----------------------------------------------------------------------------
(* Arithmetic helpers                                                      *)

\* Variant: Math.floor in place of Math.ceil
CeilAsFloor(n, frac) == (n * frac[1]) \div frac[2]

\* Math.ceil(n * num / den) for n, num >= 0 and den > 0
Ceil(n, frac) ==
    LET p == n * frac[1]
        d == frac[2]
    IN  IF p % d = 0 THEN p \div d ELSE (p \div d) + 1

RECURSIVE SumConfidence(_)
SumConfidence(rs) ==
    IF rs = <<>> THEN 0 ELSE Head(rs).confidence + SumConfidence(Tail(rs))

\* <<a, b>> stands for a / b; b > 0
FracLess(x, y) == x[1] * y[2] < y[1] * x[2]

-----------------------------------------------------------------------------
(* Error responses                                                         *)

\* Variant: the failed agent is recorded as voting no
createErrorAgentResponseVotingNo(agentId, round, error) ==
    [agentId |-> agentId,
     round |-> round,
     positionId |-> NullId,
     positionText |-> <<>>,
     vote |-> "no",
     confidence |-> 0,
     tokens |-> 0,
     status |-> "error",
     error |-> error]

createErrorAgentResponse(agentId, round, error) ==
    [agentId |-> agentId,
     round |-> round,
     positionId |-> NullId,
     positionText |-> <<>>,
     vote |-> "abstain",
     confidence |-> 0,
     tokens |-> 0,
     status |-> "error",
     error |-> error]

createErrorJudgeResponse(judgeId, round, error) ==
    [judgeId |-> judgeId,
     round |-> round,
     selectedPositionId |-> NullId,
     scored |-> {},
     confidence |-> 0,
     tokens |-> 0,
     status |-> "error",
     error |-> error]

-----------------------------------------------------------------------------
(* detectAgentConsensus                                                    *)

IsOk(r) == r.status = "ok"

detectAgentConsensus(responses, candidatePositionId, threshold) ==
    LET eligible == SelectSeq(responses, IsOk)
        IsYes(r) == r.vote = "yes" /\ r.positionId = candidatePositionId
        IsNo(r) == r.vote = "no"
        IsAbstain(r) == r.vote = "abstain"
        yesVoters == SelectSeq(eligible, IsYes)
        yesVotes == Len(yesVoters)
        noVotes == Len(SelectSeq(eligible, IsNo))
        abstainVotes == Len(SelectSeq(eligible, IsAbstain))
        tally == [yes |-> yesVotes,
                  no |-> noVotes,
                  abstain |-> abstainVotes,
                  total |-> Len(responses),
                  eligible |-> Len(eligible),
                  votingTotal |-> yesVotes + noVotes,
                  supermajorityThreshold |-> 0,
                  supermajorityReached |-> FALSE]
        notReached == [reached |-> FALSE,
                       positionId |-> NullId,
                       positionText |-> NullText,
                       voteTally |-> tally,
                       method |-> "none"]
    IN  IF candidatePositionId = NullId \/ tally.votingTotal = 0
        THEN notReached
        ELSE LET need == Ceil(tally.votingTotal, threshold)
                 tally2 == [tally EXCEPT !.supermajorityThreshold = need]
             IN  IF yesVotes >= need
                 THEN [reached |-> TRUE,
                       positionId |-> candidatePositionId,
                       positionText |->
                           IF yesVoters = <<>> THEN NullText
                           ELSE Head(yesVoters).positionText,
                       voteTally |->
                           [tally2 EXCEPT !.supermajorityReached = TRUE],
                       method |->
                           IF yesVotes = tally.votingTotal
                           THEN "unanimous" ELSE "supermajority"]
                 ELSE [notReached EXCEPT !.voteTally = tally2]

-----------------------------------------------------------------------------
(* selectNextCandidate                                                     *)

NoCandidate == [positionId |-> NullId, positionText |-> NullText,
                supportScore |-> 0, supporterCount |-> 0]

HasPosition(r) ==
    r.status = "ok" /\ r.vote # "abstain" /\ r.positionId # NullId

\* The Map byPosition, as the sequence of its entries in insertion order.
RECURSIVE GroupByPosition(_, _)
GroupByPosition(eligible, byPosition) ==
    IF eligible = <<>> THEN byPosition
    ELSE LET r == Head(eligible)
             at == {i \in 1..Len(byPosition) :
                        byPosition[i].positionId = r.positionId}
         IN  IF at # {}
             THEN LET i == CHOOSE j \in at : TRUE
                  IN  GroupByPosition(Tail(eligible),
                        [byPosition EXCEPT ![i].confidences =
                            Append(@, r.confidence)])
             ELSE GroupByPosition(Tail(eligible),
                        Append(byPosition,
                               [positionId |-> r.positionId,
                                text |-> r.positionText,
                                confidences |-> <<r.confidence>>]))

RECURSIVE SumSeq(_)
SumSeq(s) == IF s = <<>> THEN 0 ELSE Head(s) + SumSeq(Tail(s))

ScoreOf(entry) ==
    [positionId |-> entry.positionId,
     positionText |-> entry.text,
     supportScore |-> SumSeq(entry.confidences),
     supporterCount |-> Len(entry.confidences)]

\* Variant: the supporter count is left out of the comparison
CompareScoresWithoutCount(a, b) ==
    IF b.supportScore # a.supportScore
    THEN b.supportScore - a.supportScore
    ELSE localeCompare(a.positionId, b.positionId)

\* The comparator given to scores.sort: negative when a sorts before b.
CompareScores(a, b) ==
    IF b.supportScore # a.supportScore
    THEN b.supportScore - a.supportScore
    ELSE IF b.supporterCount # a.supporterCount
         THEN b.supporterCount - a.supporterCount
         ELSE localeCompare(a.positionId, b.positionId)

\* Array.prototype.sort is stable: x goes after every element that does
\* not sort after it.
RECURSIVE InsertSorted(_, _)
InsertSorted(sorted, x) ==
    IF sorted = <<>> THEN <<x>>
    ELSE IF CompareScores(Head(sorted), x) <= 0
         THEN <<Head(sorted)>> \o InsertSorted(Tail(sorted), x)
         ELSE <<x>> \o sorted

RECURSIVE SortScores(_)
SortScores(scores) ==
    IF scores = <<>> THEN <<>>
    ELSE InsertSorted(SortScores(SubSeq(scores, 1, Len(scores) - 1)),
                      scores[Len(scores)])

selectNextCandidate(responses) ==
    LET eligible == SelectSeq(responses, HasPosition)
    IN  IF eligible = <<>> THEN NoCandidate
        ELSE LET byPosition == GroupByPosition(eligible, <<>>)
                 scores == [i \in 1..Len(byPosition) |->
                                ScoreOf(byPosition[i])]
             IN  Head(SortScores(scores))

-----------------------------------------------------------------------------
(* detectJudgeConsensus                                                    *)

IsEligibleEvaluation(e) ==
    e.status = "ok" /\ e.selectedPositionId # NullId

\* positions.get(id) ?? null, for the Map positions kept as the sequence of
\* its entries in insertion order
PositionsGet(positions, id) ==
    LET at == {i \in 1..Len(positions) : positions[i].positionId = id}
    IN  IF at = {} THEN NullText
        ELSE positions[CHOOSE i \in at : TRUE].positionText

\* The Map votes, as the sequence of its entries in insertion order.
RECURSIVE CountVotes(_, _)
CountVotes(eligible, votes) ==
    IF eligible = <<>> THEN votes
    ELSE LET posId == Head(eligible).selectedPositionId
             at == {i \in 1..Len(votes) : votes[i].id = posId}
         IN  IF at # {}
             THEN LET i == CHOOSE j \in at : TRUE
                  IN  CountVotes(Tail(eligible),
                                 [votes EXCEPT ![i].count = @ + 1])
             ELSE CountVotes(Tail(eligible),
                             Append(votes, [id |-> posId, count |-> 1]))

RECURSIVE InsertVote(_, _)
InsertVote(sorted, x) ==
    IF sorted = <<>> THEN <<x>>
    ELSE IF localeCompare(Head(sorted).id, x.id) <= 0
         THEN <<Head(sorted)>> \o InsertVote(Tail(sorted), x)
         ELSE <<x>> \o sorted

RECURSIVE SortVotes(_)
SortVotes(votes) ==
    IF votes = <<>> THEN <<>>
    ELSE InsertVote(SortVotes(SubSeq(votes, 1, Len(votes) - 1)),
                    votes[Len(votes)])

\* for (const [id, count] of sortedVotes) if (count > maxVotes) ...
RECURSIVE PluralityScan(_, _)
PluralityScan(sortedVotes, best) ==
    IF sortedVotes = <<>> THEN best
    ELSE LET v == Head(sortedVotes)
         IN  PluralityScan(Tail(sortedVotes),
                           IF v.count > best.maxVotes
                           THEN [winnerId |-> v.id, maxVotes |-> v.count]
                           ELSE best)

\* Variant: the filter on the selected position is dropped
EvaluationsForAnyPosition(eligible, posId) == eligible

EvaluationsFor(eligible, posId) ==
    LET Selects(e) == e.selectedPositionId = posId
    IN  SelectSeq(eligible, Selects)

MeanConfidence(evals) == <<SumConfidence(evals), Len(evals)>>

\* for (const [posId] of tiedPositions) if (avgConf > bestAvgConf) ...
RECURSIVE TieBreakScan(_, _, _)
TieBreakScan(tiedPositions, eligible, best) ==
    IF tiedPositions = <<>> THEN best
    ELSE LET posId == Head(tiedPositions).id
             avgConf == MeanConfidence(EvaluationsFor(eligible, posId))
         IN  TieBreakScan(Tail(tiedPositions), eligible,
                          IF FracLess(best.bestAvgConf, avgConf)
                          THEN [winnerId |-> posId, bestAvgConf |-> avgConf]
                          ELSE best)

JudgeIds(evals) == [i \in 1..Len(evals) |-> evals[i].judgeId]

detectJudgeConsensus(evaluations, positions, majorityThreshold, minConf) ==
    LET eligible == SelectSeq(evaluations, IsEligibleEvaluation)
    IN  IF eligible = <<>>
        THEN [reached |-> FALSE, positionId |-> NullId,
              positionText |-> NullText, confidence |-> <<0, 1>>,
              dissents |-> <<>>]
        ELSE
        LET requiredVotes == Ceil(Len(eligible), majorityThreshold)
            sortedVotes == SortVotes(CountVotes(eligible, <<>>))
            plurality == PluralityScan(sortedVotes,
                            [winnerId |-> NullId, maxVotes |-> 0])
            maxVotes == plurality.maxVotes
            IsTied(v) == v.count = maxVotes
            tiedPositions == SelectSeq(sortedVotes, IsTied)
            winnerId ==
                IF Len(tiedPositions) > 1
                THEN TieBreakScan(tiedPositions, eligible,
                        [winnerId |-> plurality.winnerId,
                         bestAvgConf |-> <<-1, 1>>]).winnerId
                ELSE plurality.winnerId
            winningEvals == EvaluationsFor(eligible, winnerId)
            avgConfidence == MeanConfidence(winningEvals)
            Dissents(e) == e.selectedPositionId # winnerId
            others == JudgeIds(SelectSeq(eligible, Dissents))
        IN  IF winnerId = NullId \/ maxVotes < requiredVotes
            THEN [reached |-> FALSE, positionId |-> winnerId,
                  positionText |->
                      IF winnerId # NullId
                      THEN PositionsGet(positions, winnerId) ELSE NullText,
                  confidence |-> <<0, 1>>,
                  dissents |-> JudgeIds(eligible)]
            ELSE IF FracLess(avgConfidence, <<minConf, 1>>)
            THEN [reached |-> FALSE, positionId |-> winnerId,
                  positionText |-> PositionsGet(positions, winnerId),
                  confidence |-> avgConfidence,
                  dissents |-> others]
            ELSE [reached |-> TRUE, positionId |-> winnerId,
                  positionText |-> PositionsGet(positions, winnerId),
                  confidence |-> avgConfidence,
                  dissents |-> others]

-----------------------------------------------------------------------------
(* StateManager                                                            *)

Phases == {"init", "agent_debate", "judge_evaluation",
           "consensus_reached", "deadlock"}

\* Variant: a deadlocked session may re-enter the agent debate
VALID_TRANSITIONS_DeadlockReopens ==
    [p \in Phases |->
        CASE p = "init" -> {"agent_debate"}
          [] p = "agent_debate" ->
                {"consensus_reached", "judge_evaluation", "deadlock"}
          [] p = "judge_evaluation" -> {"consensus_reached", "deadlock"}
          [] p = "consensus_reached" -> {}
          [] p = "deadlock" -> {"agent_debate"}]

VALID_TRANSITIONS ==
    [p \in Phases |->
        CASE p = "init" -> {"agent_debate"}
          [] p = "agent_debate" ->
                {"consensus_reached", "judge_evaluation", "deadlock"}
          [] p = "judge_evaluation" -> {"consensus_reached", "deadlock"}
          [] p = "consensus_reached" -> {}
          [] p = "deadlock" -> {}]

\* generateSessionId(): the UUIDv7 of a session started fresh
generateSessionId == "s1"

\* new StateManager(options), constructed at the given time
StateManager(cfg, initialPhase, agentRounds, judgeRounds, time) ==
    [id |-> generateSessionId,
     phase |-> initialPhase,
     config |-> cfg,
     agentRounds |-> agentRounds,
     judgeRounds |-> judgeRounds,
     finalVerdict |-> None,
     metadata |-> [startedAt |-> time,
                   completedAt |-> NullTime,
                   totalTokens |-> 0,
                   totalErrors |-> 0,
                   totalRetries |-> 0,
                   hasCheckpointPath |-> FALSE]]

\* A method either returns with the session it leaves behind or throws.
Returned(s) == [session |-> s, error |-> "none"]
Thrown(s, error) == [session |-> s, error |-> error]

transitionTo(s, newPhase, time) ==
    IF newPhase \notin VALID_TRANSITIONS[s.phase]
    THEN Thrown(s, "InvalidStateTransitionError")
    ELSE Returned([s EXCEPT
            !.phase = newPhase,
            !.metadata.completedAt =
                IF newPhase \in {"consensus_reached", "deadlock"}
                THEN time ELSE @])

RECURSIVE SumTokens(_)
SumTokens(rs) == IF rs = <<>> THEN 0 ELSE Head(rs).tokens + SumTokens(Tail(rs))

IsError(r) == r.status = "error"

updateMetadataFromRound(s, round) ==
    [s EXCEPT
        !.metadata.totalTokens = @ + SumTokens(round.responses),
        !.metadata.totalErrors = @ + Len(SelectSeq(round.responses, IsError))]

updateMetadataFromJudgeRound(s, round) ==
    [s EXCEPT
        !.metadata.totalTokens = @ + SumTokens(round.evaluations),
        !.metadata.totalErrors =
            @ + Len(SelectSeq(round.evaluations, IsError))]

\* A variant of addAgentRound that puts the round before the others
addAgentRoundInFront(s, round) ==
    updateMetadataFromRound(
        [s EXCEPT !.agentRounds = <<round>> \o @], round)

addAgentRound(s, round) ==
    updateMetadataFromRound(
        [s EXCEPT !.agentRounds = Append(@, round)], round)

addJudgeRound(s, round) ==
    updateMetadataFromJudgeRound(
        [s EXCEPT !.judgeRounds = Append(@, round)], round)

setFinalVerdict(s, verdict) == [s EXCEPT !.finalVerdict = verdict]

incrementRetries(s) == [s EXCEPT !.metadata.totalRetries = @ + 1]

setCheckpointPath(s) == [s EXCEPT !.metadata.hasCheckpointPath = TRUE]

getCurrentAgentRound(s) == Len(s.agentRounds) + 1

getCurrentJudgeRound(s) == Len(s.judgeRounds) + 1

\* agentRounds.at(-1); None stands for undefined
getLastAgentRound(s) ==
    IF s.agentRounds = <<>> THEN None ELSE s.agentRounds[Len(s.agentRounds)]

getLastJudgeRound(s) ==
    IF s.judgeRounds = <<>> THEN None ELSE s.judgeRounds[Len(s.judgeRounds)]

-----------------------------------------------------------------------------
(* Round runner: runAgent, runDebateRound, getNextCandidate                *)
(*                                                                         *)
(* What an adapter call comes to is a record with kind "throw" (getAdapter *)
(* or adapter.call threw error; retryable is ModelError.retryable) or kind *)
(* "content" (the call returned): content is "valid" JSON, "repairable"    *)
(* text or "garbage", and data is the object the text parses to.  An       *)
(* absent optional field of data is NullId / NullText.                     *)

\* A variant of the loop that takes every thrown error for retryable
RECURSIVE RetryLoopOnAnyError(_, _, _)
RetryLoopOnAnyError(outcomes, attempt, maxAttempts) ==
    LET o == outcomes[attempt + 1]
    IN  IF o.kind # "throw" \/ attempt >= maxAttempts
        THEN [result |-> o, retries |-> attempt]
        ELSE RetryLoopOnAnyError(outcomes, attempt + 1, maxAttempts)

\* The loop of the adapter returned by withRetry.  outcomes[k] is what the
\* k-th adapter.call comes to; the value is what the wrapped call comes to
\* and how many times onRetry ran.
RECURSIVE RetryLoop(_, _, _)
RetryLoop(outcomes, attempt, maxAttempts) ==
    LET o == outcomes[attempt + 1]
    IN  IF o.kind # "throw" THEN [result |-> o, retries |-> attempt]
        ELSE IF ~o.retryable \/ attempt >= maxAttempts
        THEN [result |-> o, retries |-> attempt]
        ELSE RetryLoop(outcomes, attempt + 1, maxAttempts)

\* A variant of withRetry that retries in deterministic mode as well
withRetryIgnoringMode(retries, deterministicMode, outcomes) ==
    RetryLoop(outcomes, 0, retries.maxAttempts)

\* maxAttempts = deterministicMode ? 0 : config.maxAttempts
withRetry(retries, deterministicMode, outcomes) ==
    RetryLoop(outcomes, 0,
              IF deterministicMode THEN 0 ELSE retries.maxAttempts)

\* parseJsonWithRepair(raw, allowRepair).success
parseJsonWithRepair(content, allowRepair) ==
    content = "valid" \/ (allowRepair /\ content = "repairable")

\* AgentResponseSchema.safeParse(data).success
AgentResponseSchema(data) ==
    /\ data.vote \in {"yes", "no", "abstain"}
    /\ data.targetPositionId = NullId \/ Len(data.targetPositionId) = 12
    /\ data.newPositionText = NullText
          \/ (Len(data.newPositionText) >= 1
                /\ Len(data.newPositionText) <= 4000)
    /\ data.confidence >= 0 /\ data.confidence <= 100
    /\ data.vote = "yes" => TruthyId(data.targetPositionId)
    /\ data.vote = "no" => TruthyText(data.newPositionText)

runAgent(agent, round, candidateId, candidateText, deterministic, result) ==
    IF result.kind = "throw"
    THEN createErrorAgentResponse(agent, round, result.error)
    ELSE IF ~parseJsonWithRepair(result.content, ~deterministic)
    THEN createErrorAgentResponse(agent, round, "Failed to parse JSON")
    ELSE IF ~AgentResponseSchema(result.data)
    THEN createErrorAgentResponse(agent, round, "Schema validation failed")
    ELSE
    LET data == result.data
        position ==
            IF data.vote = "yes" /\ TruthyId(data.targetPositionId)
            THEN [id |-> data.targetPositionId,
                  text |-> TextOrElse(candidateText, <<>>)]
            ELSE IF data.vote = "no" /\ TruthyText(data.newPositionText)
            THEN [id |-> generatePositionId(data.newPositionText),
                  text |-> data.newPositionText]
            ELSE IF data.vote = "abstain" /\ TruthyText(data.newPositionText)
            THEN [id |-> generatePositionId(data.newPositionText),
                  text |-> data.newPositionText]
            ELSE [id |-> NullId, text |-> <<>>]
    IN  [agentId |-> agent,
         round |-> round,
         positionId |-> position.id,
         positionText |-> position.text,
         vote |-> data.vote,
         confidence |-> data.confidence,
         tokens |-> result.tokens,
         status |-> "ok",
         error |-> "null"]

\* Variant: the round's candidate is recorded as its consensus position
RoundResultOfCandidate(input, responses, consensusResult, time) ==
    [roundNumber |-> input.round,
     candidatePositionId |-> input.candidatePositionId,
     candidatePositionText |-> input.candidatePositionText,
     responses |-> responses,
     consensusReached |-> consensusResult.reached,
     consensusPositionId |-> input.candidatePositionId,
     consensusPositionText |-> input.candidatePositionText,
     voteTally |-> consensusResult.voteTally,
     timestamp |-> time]

\* The RoundResult runDebateRound builds
RoundResultOf(input, responses, consensusResult, time) ==
    [roundNumber |-> input.round,
     candidatePositionId |-> input.candidatePositionId,
     candidatePositionText |-> input.candidatePositionText,
     responses |-> responses,
     consensusReached |-> consensusResult.reached,
     consensusPositionId |-> consensusResult.positionId,
     consensusPositionText |-> consensusResult.positionText,
     voteTally |-> consensusResult.voteTally,
     timestamp |-> time]

DetectAndBuild(input, cfg, responses, time) ==
    RoundResultOf(input, responses,
                  detectAgentConsensus(responses, input.candidatePositionId,
                                       cfg.consensusThreshold),
                  time)

\* runDebateRound, given what withRetry made of each agent's calls;
\* Promise.all keeps the responses in the order of config.agents.
runDebateRound(input, cfg, results, time) ==
    DetectAndBuild(input, cfg,
        [i \in 1..Len(cfg.agents) |->
            runAgent(cfg.agents[i], input.round, input.candidatePositionId,
                     input.candidatePositionText, cfg.deterministicMode,
                     results[i].result)],
        time)

\* A variant that takes the position of the round's first response
getNextCandidateOfFirstResponse(lastRound) ==
    IF lastRound.responses = <<>> \/ lastRound.responses[1].positionId = NullId
    THEN NoCandidate
    ELSE [NoCandidate EXCEPT
            !.positionId = lastRound.responses[1].positionId,
            !.positionText = lastRound.responses[1].positionText]

\* getNextCandidate; NoCandidate stands for null
getNextCandidate(lastRound) == selectNextCandidate(lastRound.responses)

-----------------------------------------------------------------------------
(* Judge panel: collectPositions, runJudge, runJudgeRound                  *)

\* A variant that enters a position once per response proposing it
RECURSIVE CollectFromKeepingDuplicates(_, _)
CollectFromKeepingDuplicates(responses, positions) ==
    IF responses = <<>> THEN positions
    ELSE LET r == Head(responses)
         IN  CollectFromKeepingDuplicates(Tail(responses),
                IF /\ r.status = "ok"
                   /\ TruthyId(r.positionId)
                   /\ TruthyText(r.positionText)
                THEN Append(positions, [positionId |-> r.positionId,
                                        positionText |-> r.positionText])
                ELSE positions)

RECURSIVE CollectFrom(_, _)
CollectFrom(responses, positions) ==
    IF responses = <<>> THEN positions
    ELSE LET r == Head(responses)
             seen == \E i \in 1..Len(positions) :
                        positions[i].positionId = r.positionId
         IN  CollectFrom(Tail(responses),
                IF /\ r.status = "ok"
                   /\ TruthyId(r.positionId)
                   /\ TruthyText(r.positionText)
                   /\ ~seen
                THEN Append(positions, [positionId |-> r.positionId,
                                        positionText |-> r.positionText])
                ELSE positions)

RECURSIVE CollectRounds(_, _)
CollectRounds(rounds, positions) ==
    IF rounds = <<>> THEN positions
    ELSE CollectRounds(Tail(rounds),
                       CollectFrom(Head(rounds).responses, positions))

\* The Map it returns, as the sequence of its entries in insertion order.
collectPositions(rounds, scope) ==
    LET roundsToProcess ==
            IF scope = "last_round"
            THEN (IF rounds = <<>> THEN <<>> ELSE <<rounds[Len(rounds)]>>)
            ELSE rounds
    IN  CollectRounds(roundsToProcess, <<>>)

\* JudgeEvaluationSchema.safeParse(data).success; data.scored is the key
\* set of scoresByPositionId
JudgeEvaluationSchema(data) ==
    /\ data.selectedPositionId # NullId
    /\ Len(data.selectedPositionId) = 12
    /\ \A id \in data.scored : Len(id) = 12
    /\ data.confidence >= 0 /\ data.confidence <= 100

runJudge(judge, round, deterministicMode, result) ==
    IF result.kind = "throw"
    THEN createErrorJudgeResponse(judge, round, result.error)
    ELSE IF ~parseJsonWithRepair(result.content, ~deterministicMode)
    THEN createErrorJudgeResponse(judge, round, "Failed to parse JSON")
    ELSE IF ~JudgeEvaluationSchema(result.data)
    THEN createErrorJudgeResponse(judge, round, "Schema validation failed")
    ELSE [judgeId |-> judge,
          round |-> round,
          selectedPositionId |-> result.data.selectedPositionId,
          scored |-> result.data.scored,
          confidence |-> result.data.confidence,
          tokens |-> result.tokens,
          status |-> "ok",
          error |-> "null"]

\* The JudgeRoundResult runJudgeRound builds
JudgeRoundResultOf(round, positions, evaluations, consensusResult, time) ==
    [roundNumber |-> round,
     positionIds |-> [i \in 1..Len(positions) |-> positions[i].positionId],
     evaluations |-> evaluations,
     consensusReached |-> consensusResult.reached,
     consensusPositionId |-> consensusResult.positionId,
     avgConfidence |-> consensusResult.confidence,
     timestamp |-> time]

DetectAndBuildJudge(round, positions, cfg, evaluations, time) ==
    JudgeRoundResultOf(round, positions, evaluations,
        detectJudgeConsensus(evaluations, positions,
                             cfg.judgeConsensusThreshold,
                             cfg.judgeMinConfidence),
        time)

runJudgeRound(round, positions, cfg, results, time) ==
    DetectAndBuildJudge(round, positions, cfg,
        [i \in 1..Len(cfg.judges) |->
            runJudge(cfg.judges[i], round, cfg.deterministicMode,
                     results[i].result)],
        time)

-----------------------------------------------------------------------------
(* Orchestrator: runAgentDebatePhase, runJudgeEvaluationPhase, buildOutput *)
(*                                                                         *)
(* results[i] is what withRetry made of the calls of participant i in the  *)
(* round; each run of onRetry calls stateManager.incrementRetries().       *)

RECURSIVE IncrementRetriesFor(_, _)
IncrementRetriesFor(s, results) ==
    IF results = <<>> THEN s
    ELSE IncrementRetriesFor(
            [s EXCEPT !.metadata.totalRetries = @ + Head(results).retries],
            Tail(results))

\* The CheckpointData handed to saveCheckpoint
saveCheckpoint(s, cfg) ==
    [sessionId |-> s.id,
     phase |-> s.phase,
     config |-> cfg,
     agentRounds |-> s.agentRounds,
     judgeRounds |-> s.judgeRounds]

VotedYes(r) == r.vote = "yes"

\* transitionTo(phase) followed, when it did not throw, by
\* setFinalVerdict(verdict)
TransitionWithVerdict(t, verdict) ==
    IF t.error # "none" THEN t
    ELSE Returned(setFinalVerdict(t.session, verdict))

\* A variant that gives round 1 a candidate
CandidateForRoundOneToo(s) ==
    IF getCurrentAgentRound(s) = 1 \/ s.agentRounds = <<>>
    THEN [NoCandidate EXCEPT !.positionId = generatePositionId(<<"a", "b">>),
                             !.positionText = <<"a", "b">>]
    ELSE getNextCandidate(getLastAgentRound(s))

\* The candidate of the round about to run
CandidateFor(s) ==
    IF getCurrentAgentRound(s) = 1 \/ s.agentRounds = <<>>
    THEN NoCandidate
    ELSE getNextCandidate(getLastAgentRound(s))

DebateRoundInput(round, candidate) ==
    [round |-> round,
     candidatePositionId |-> candidate.positionId,
     candidatePositionText |-> candidate.positionText]

\* The loop body of runAgentDebatePhase from the consensus check on;
\* returned tells whether the function returned from inside the loop.
CheckAgentConsensus(s, ckpt, completed, time) ==
    IF /\ completed.consensusReached
       /\ TruthyId(completed.consensusPositionId)
       /\ TruthyText(completed.consensusPositionText)
    THEN [end |-> TransitionWithVerdict(
                     transitionTo(s, "consensus_reached", time),
                     [positionId |-> completed.consensusPositionId,
                      positionText |-> completed.consensusPositionText,
                      confidence |->
                          MeanConfidence(SelectSeq(completed.responses,
                                                   VotedYes)),
                      source |-> "agent_consensus"]),
          checkpoint |-> ckpt,
          returned |-> TRUE]
    ELSE [end |-> Returned(s), checkpoint |-> ckpt, returned |-> FALSE]

\* Variant: the checkpoint is saved after the consensus check
RecordAgentRoundSavingLast(s, cfg, ckpt, completed, time) ==
    LET checked == CheckAgentConsensus(addAgentRound(s, completed), ckpt,
                                       completed, time)
    IN  IF TruthyText(cfg.checkpointDir) /\ checked.end.error = "none"
        THEN [checked EXCEPT
                 !.checkpoint = saveCheckpoint(checked.end.session, cfg)]
        ELSE checked

\* The loop body from addAgentRound on
RecordAgentRound(s, cfg, ckpt, completed, time) ==
    IF TruthyText(cfg.checkpointDir)
    THEN CheckAgentConsensus(setCheckpointPath(addAgentRound(s, completed)),
                             saveCheckpoint(addAgentRound(s, completed), cfg),
                             completed, time)
    ELSE CheckAgentConsensus(addAgentRound(s, completed), ckpt, completed,
                             time)

\* One iteration of the while loop of runAgentDebatePhase
AgentDebateIteration(s, cfg, ckpt, results, time) ==
    RecordAgentRound(IncrementRetriesFor(s, results), cfg, ckpt,
        runDebateRound(DebateRoundInput(getCurrentAgentRound(s),
                                        CandidateFor(s)),
                       cfg, results, time),
        time)

DeadlockVerdict(candidate) ==
    [positionId |-> candidate.positionId,
     positionText |-> candidate.positionText,
     confidence |-> <<0, 1>>,
     source |-> "deadlock"]

\* The deadlock branch of runAgentDebatePhase, t being what
\* transitionTo("deadlock") came to
AgentDeadlock(t, candidate) ==
    IF candidate = NoCandidate THEN t
    ELSE TransitionWithVerdict(t, DeadlockVerdict(candidate))

\* A variant that returns without leaving agent_debate
AfterAgentRoundsStaying(s, cfg, time) == Returned(s)

\* runAgentDebatePhase after its while loop
AfterAgentRounds(s, cfg, time) ==
    IF /\ cfg.judgePanelEnabled
       /\ Len(collectPositions(s.agentRounds, cfg.judgePositionsScope)) >= 2
       /\ Len(cfg.judges) >= 3
    THEN transitionTo(s, "judge_evaluation", time)
    ELSE AgentDeadlock(transitionTo(s, "deadlock", time),
                       IF s.agentRounds = <<>> THEN NoCandidate
                       ELSE getNextCandidate(getLastAgentRound(s)))

JudgeVerdict(positions, positionId, confidence, source) ==
    [positionId |-> positionId,
     positionText |-> TextOrElse(PositionsGet(positions, positionId), <<>>),
     confidence |-> confidence,
     source |-> source]

\* The loop body of runJudgeEvaluationPhase from the consensus check on
CheckJudgeConsensus(s, ckpt, positions, completed, time) ==
    IF completed.consensusReached /\ TruthyId(completed.consensusPositionId)
    THEN [end |-> TransitionWithVerdict(
                     transitionTo(s, "consensus_reached", time),
                     JudgeVerdict(positions, completed.consensusPositionId,
                                  completed.avgConfidence,
                                  "judge_consensus")),
          checkpoint |-> ckpt,
          returned |-> TRUE]
    ELSE [end |-> Returned(s), checkpoint |-> ckpt, returned |-> FALSE]

\* The loop body from addJudgeRound on
RecordJudgeRound(s, cfg, ckpt, positions, completed, time) ==
    CheckJudgeConsensus(addJudgeRound(s, completed),
        IF TruthyText(cfg.checkpointDir)
        THEN saveCheckpoint(addJudgeRound(s, completed), cfg) ELSE ckpt,
        positions, completed, time)

RunAndRecordJudgeRound(s, cfg, ckpt, positions, results, time) ==
    RecordJudgeRound(IncrementRetriesFor(s, results), cfg, ckpt, positions,
        runJudgeRound(getCurrentJudgeRound(s), positions, cfg, results, time),
        time)

\* One iteration of the while loop of runJudgeEvaluationPhase
JudgeEvaluationIteration(s, cfg, ckpt, results, time) ==
    RunAndRecordJudgeRound(s, cfg, ckpt,
        collectPositions(s.agentRounds, cfg.judgePositionsScope),
        results, time)

\* The end of runJudgeEvaluationPhase, t being what transitionTo("deadlock")
\* came to
JudgeDeadlock(t, positions, lastJudgeRound) ==
    IF lastJudgeRound = None
       \/ ~TruthyId(lastJudgeRound.consensusPositionId)
    THEN t
    ELSE TransitionWithVerdict(t,
            JudgeVerdict(positions, lastJudgeRound.consensusPositionId,
                         lastJudgeRound.avgConfidence, "deadlock"))

\* runJudgeEvaluationPhase after its while loop
AfterJudgeRounds(s, cfg, time) ==
    JudgeDeadlock(transitionTo(s, "deadlock", time),
                  collectPositions(s.agentRounds, cfg.judgePositionsScope),
                  getLastJudgeRound(s))

buildOutput(s) ==
    [session |-> [phase |-> s.phase,
                  startedAt |-> s.metadata.startedAt,
                  completedAt |-> s.metadata.completedAt,
                  totalTokens |-> s.metadata.totalTokens,
                  totalRetries |-> s.metadata.totalRetries,
                  totalErrors |-> s.metadata.totalErrors],
     agentDebate |->
        [rounds |-> s.agentRounds,
         finalPositionId |->
            IF s.agentRounds = <<>> THEN NullId
            ELSE getLastAgentRound(s).consensusPositionId,
         finalPositionText |->
            IF s.agentRounds = <<>> THEN NullText
            ELSE getLastAgentRound(s).consensusPositionText],
     judgePanel |->
        [enabled |-> s.config.judgePanelEnabled,
         rounds |-> s.judgeRounds,
         final |->
            IF s.judgeRounds = <<>> THEN None
            ELSE IF s.finalVerdict = None
            THEN [consensusPositionId |-> <<>>,
                  consensusPositionText |-> <<>>,
                  consensusConfidence |-> <<0, 1>>,
                  dissents |-> <<>>]
            ELSE [consensusPositionId |-> s.finalVerdict.positionId,
                  consensusPositionText |-> s.finalVerdict.positionText,
                  consensusConfidence |-> s.finalVerdict.confidence,
                  dissents |-> <<>>]],
     finalVerdict |->
        IF s.finalVerdict = None
        THEN [positionId |-> <<>>, positionText |-> <<>>,
              confidence |-> <<0, 1>>, source |-> "deadlock"]
        ELSE s.finalVerdict]

-----------------------------------------------------------------------------
(* Checkpoint file: saveCheckpoint and loadCheckpoint of checkpoint.ts     *)
(*                                                                         *)
(* A digest stands for the hex string of a hash: sha256 and hmacSha256 are *)
(* taken to be free of collisions, so a digest is its preimage in a        *)
(* wrapper.  canonicalizeJson sorts the keys of every object; the fields   *)
(* of a record have no order, so a record stands for its canonical text.   *)
(* engineVersion and timestamp are left out of the file.                   *)

SPEC_VERSION == "2.3.0"

NoKey == "none"

sha256(data) == [digestOf |-> data]

hmacSha256(data, key) == [macOf |-> data, key |-> key]

IsDigest(x) == DOMAIN x = {"digestOf"}

IsMac(x) == DOMAIN x = {"macOf", "key"}

\* A threshold between 0.5 and 1
InUpperHalf(frac) == 2 * frac[1] >= frac[2] /\ frac[1] <= frac[2]

\* DebateConfigSchema.safeParse(cfg).success
DebateConfigSchema(cfg) ==
    /\ Len(cfg.agents) >= 2 /\ Len(cfg.agents) <= 10
    /\ Len(cfg.judges) <= 15
    /\ cfg.maxAgentRounds >= 1 /\ cfg.maxAgentRounds <= 10
    /\ cfg.maxJudgeRounds >= 1 /\ cfg.maxJudgeRounds <= 5
    /\ InUpperHalf(cfg.consensusThreshold)
    /\ InUpperHalf(cfg.judgeConsensusThreshold)
    /\ cfg.judgeMinConfidence >= 0 /\ cfg.judgeMinConfidence <= 100
    /\ cfg.judgePositionsScope \in {"all_rounds", "last_round"}
    /\ cfg.retries.maxAttempts >= 0 /\ cfg.retries.maxAttempts <= 5
    /\ ~cfg.judgePanelEnabled \/ Len(cfg.judges) >= 3

NullableId(id) == id = NullId \/ Len(id) = POSITION_ID_LENGTH

\* FullAgentResponseSchema
FullAgentResponseSchema(r) ==
    /\ r.round >= 1
    /\ NullableId(r.positionId)
    /\ Len(r.positionText) <= 4000
    /\ r.vote \in {"yes", "no", "abstain"}
    /\ r.confidence >= 0 /\ r.confidence <= 100
    /\ r.tokens >= 0
    /\ r.status \in {"ok", "error"}

\* RoundResultSchema
RoundResultSchema(r) ==
    /\ r.roundNumber >= 1
    /\ NullableId(r.candidatePositionId)
    /\ \A i \in DOMAIN r.responses : FullAgentResponseSchema(r.responses[i])
    /\ NullableId(r.consensusPositionId)

\* FullJudgeEvaluationSchema
FullJudgeEvaluationSchema(e) ==
    /\ e.round >= 1
    /\ NullableId(e.selectedPositionId)
    /\ e.confidence >= 0 /\ e.confidence <= 100
    /\ e.tokens >= 0
    /\ e.status \in {"ok", "error"}

\* JudgeRoundResultSchema
JudgeRoundResultSchema(r) ==
    /\ r.roundNumber >= 1
    /\ \A i \in DOMAIN r.positionIds :
          Len(r.positionIds[i]) = POSITION_ID_LENGTH
    /\ \A i \in DOMAIN r.evaluations :
          FullJudgeEvaluationSchema(r.evaluations[i])
    /\ NullableId(r.consensusPositionId)

\* The checkpoint without its integrity field
WithoutIntegrity(file) ==
    [version |-> file.version,
     sessionId |-> file.sessionId,
     phase |-> file.phase,
     config |-> file.config,
     configHash |-> file.configHash,
     agentRounds |-> file.agentRounds,
     judgeRounds |-> file.judgeRounds]

\* The integrity field saveCheckpoint computes; hmacKey is the value of
\* LLM_COURT_CHECKPOINT_HMAC_KEY, NoKey when it is unset
IntegrityOf(rest, hmacKey) ==
    [sha256 |-> sha256(rest),
     hmac |-> IF hmacKey # NoKey THEN hmacSha256(sha256(rest), hmacKey)
              ELSE None]

WithIntegrity(rest, integrity) ==
    [version |-> rest.version,
     sessionId |-> rest.sessionId,
     phase |-> rest.phase,
     config |-> rest.config,
     configHash |-> rest.configHash,
     agentRounds |-> rest.agentRounds,
     judgeRounds |-> rest.judgeRounds,
     integrity |-> integrity]

Signed(rest, hmacKey) == WithIntegrity(rest, IntegrityOf(rest, hmacKey))

\* The file saveCheckpoint(path, data) writes
CheckpointFile(data, hmacKey) ==
    Signed([version |-> SPEC_VERSION,
            sessionId |-> data.sessionId,
            phase |-> data.phase,
            config |-> data.config,
            configHash |-> sha256(data.config),
            agentRounds |-> data.agentRounds,
            judgeRounds |-> data.judgeRounds],
           hmacKey)

\* CheckpointSchema.safeParse(parsed).success
CheckpointSchema(file) ==
    /\ file.version = "2.3.0"
    /\ file.phase \in Phases
    /\ DebateConfigSchema(file.config)
    /\ IsDigest(file.configHash)
    /\ \A i \in DOMAIN file.agentRounds :
          RoundResultSchema(file.agentRounds[i])
    /\ \A i \in DOMAIN file.judgeRounds :
          JudgeRoundResultSchema(file.judgeRounds[i])
    /\ IsDigest(file.integrity.sha256)
    /\ file.integrity.hmac = None \/ IsMac(file.integrity.hmac)

\* What loadCheckpoint comes to
Loaded(data) == [error |-> "none", data |-> data]
LoadFails(error) == [error |-> error, data |-> None]

\* A variant that does not recompute the SHA-256 of the content
loadCheckpointTrustingHash(file, hmacKey) ==
    IF file = None THEN LoadFails("CheckpointError: read or parse")
    ELSE IF ~CheckpointSchema(file) THEN LoadFails("CheckpointError: schema")
    ELSE IF /\ hmacKey # NoKey
            /\ file.integrity.hmac # None
            /\ file.integrity.hmac # hmacSha256(file.integrity.sha256, hmacKey)
    THEN LoadFails("CheckpointIntegrityError: hmac")
    ELSE Loaded([sessionId |-> file.sessionId,
                 phase |-> file.phase,
                 config |-> file.config,
                 agentRounds |-> file.agentRounds,
                 judgeRounds |-> file.judgeRounds])

\* loadCheckpoint(path), the file at path holding file (None when it cannot
\* be read or is not JSON) and hmacKey being the value of the environment
\* variable
loadCheckpoint(file, hmacKey) ==
    IF file = None THEN LoadFails("CheckpointError: read or parse")
    ELSE IF ~CheckpointSchema(file) THEN LoadFails("CheckpointError: schema")
    ELSE IF file.version # SPEC_VERSION THEN LoadFails("CheckpointVersionError")
    ELSE IF file.integrity.sha256 # sha256(WithoutIntegrity(file))
    THEN LoadFails("CheckpointIntegrityError: sha256")
    ELSE IF /\ hmacKey # NoKey
            /\ file.integrity.hmac # None
            /\ file.integrity.hmac # hmacSha256(file.integrity.sha256, hmacKey)
    THEN LoadFails("CheckpointIntegrityError: hmac")
    ELSE Loaded([sessionId |-> file.sessionId,
                 phase |-> file.phase,
                 config |-> file.config,
                 agentRounds |-> file.agentRounds,
                 judgeRounds |-> file.judgeRounds])

-----------------------------------------------------------------------------
(* Values the bounded inputs are drawn from                                *)

TextAb == <<"a", "b">>
TextAbSpaced == <<" ", "A", "b">>
TextC == <<"c">>

IdAb == generatePositionId(TextAb)
IdC == generatePositionId(TextC)

\* consensusThreshold: 0.5, 0.67 (the default) and 1.0
Thresholds == {<<1, 2>>, <<67, 100>>, <<1, 1>>}

MaxResponses == 3

OkResponse(agentId, round, vote, positionId, positionText, confidence) ==
    [agentId |-> agentId,
     round |-> round,
     positionId |-> positionId,
     positionText |-> positionText,
     vote |-> vote,
     confidence |-> confidence,
     tokens |-> 5,
     status |-> "ok",
     error |-> "null"]

\* Responses a consensus-module call is tried on: an error response, yes
\* votes for either position, no votes that spell the same position two
\* ways, and an abstention.
SampleResponses ==
    {createErrorAgentResponse("a", 2, "timeout"),
     OkResponse("a", 2, "yes", IdAb, TextAb, 80),
     OkResponse("a", 2, "yes", IdC, TextC, 40),
     OkResponse("a", 2, "no", IdAb, TextAbSpaced, 40),
     OkResponse("a", 2, "no", IdC, TextC, 80),
     OkResponse("a", 2, "abstain", IdAb, TextAb, 80)}

SeqsUpTo(S, n) == UNION {[1..k -> S] : k \in 0..n}

-----------------------------------------------------------------------------
(* Initial values of the variables a specification does not use            *)

NoRun ==
    /\ session = None /\ now = 0 /\ pc = "idle" /\ config = None
    /\ checkpoint = None /\ output = None /\ call = NoCall

NoRound == roundInput = None /\ agentState = <<>> /\ roundResult = None

NoFn == fnIn = None /\ fnOut = None

fnVars == <<fnIn, fnOut>>

-----------------------------------------------------------------------------
(* SpecStateManager: a StateManager under any sequence of calls            *)

MaxClock == 2
MaxRetriesCounted == 1

SampleConfig == [topic |-> "t"]

SampleVerdicts ==
    {[positionId |-> IdAb, positionText |-> TextAb,
      confidence |-> <<80, 1>>, source |-> "agent_consensus"],
     [positionId |-> IdC, positionText |-> TextC,
      confidence |-> <<0, 1>>, source |-> "deadlock"]}

InitStateManager ==
    /\ session = StateManager(SampleConfig, "init", <<>>, <<>>, 0)
    /\ now = 0 /\ pc = "idle" /\ config = SampleConfig
    /\ checkpoint = None /\ output = None /\ call = NoCall
    /\ NoRound /\ NoFn

Tick ==
    /\ now < MaxClock
    /\ now' = now + 1
    /\ call' = NoCall
    /\ UNCHANGED <<session, pc, config, checkpoint, output, roundVars, fnVars>>

CallTransitionTo(newPhase) ==
    LET r == transitionTo(session, newPhase, now)
    IN  /\ session' = r.session
        /\ call' = [op |-> "transitionTo", arg |-> newPhase,
                    error |-> r.error]
        /\ UNCHANGED <<now, pc, config, checkpoint, output, roundVars,
                       fnVars>>

CallSetFinalVerdict(verdict) ==
    /\ session' = setFinalVerdict(session, verdict)
    /\ call' = [op |-> "setFinalVerdict", arg |-> verdict.source,
                error |-> "none"]
    /\ UNCHANGED <<now, pc, config, checkpoint, output, roundVars, fnVars>>

CallIncrementRetries ==
    /\ session.metadata.totalRetries < MaxRetriesCounted
    /\ session' = incrementRetries(session)
    /\ call' = [op |-> "incrementRetries", arg |-> "none", error |-> "none"]
    /\ UNCHANGED <<now, pc, config, checkpoint, output, roundVars, fnVars>>

NextStateManager ==
    \/ Tick
    \/ \E newPhase \in Phases : CallTransitionTo(newPhase)
    \/ \E verdict \in SampleVerdicts : CallSetFinalVerdict(verdict)
    \/ CallIncrementRetries

SpecStateManager == InitStateManager /\ [][NextStateManager]_vars

-----------------------------------------------------------------------------
(* SpecAgentConsensus: detectAgentConsensus on bounded arguments           *)

InitAgentConsensus ==
    /\ NoRun /\ NoRound
    /\ fnIn \in [responses : SeqsUpTo(SampleResponses, MaxResponses),
                  candidatePositionId : {NullId, IdAb, IdC},
                  threshold : Thresholds]
    /\ fnOut = None

CallDetectAgentConsensus ==
    /\ fnOut = None
    /\ fnOut' = [kind |-> "detectAgentConsensus",
                 result |-> detectAgentConsensus(fnIn.responses,
                                fnIn.candidatePositionId, fnIn.threshold)]
    /\ UNCHANGED <<runVars, roundVars, fnIn>>

NextAgentConsensus == CallDetectAgentConsensus

SpecAgentConsensus == InitAgentConsensus /\ [][NextAgentConsensus]_vars

-----------------------------------------------------------------------------
(* SpecCandidate: selectNextCandidate on bounded arguments, and on the     *)
(* same responses in another order                                         *)

InitCandidate ==
    /\ NoRun /\ NoRound
    /\ \E rs \in SeqsUpTo(SampleResponses, MaxResponses) :
           fnIn = [responses |-> rs, original |-> rs]
    /\ fnOut = None

\* The caller passes the same responses in another order.
ReorderResponses ==
    /\ \E i \in 1..(Len(fnIn.responses) - 1) :
           fnIn' = [fnIn EXCEPT
                      !.responses = [@ EXCEPT ![i] = fnIn.responses[i + 1],
                                              ![i + 1] = fnIn.responses[i]]]
    /\ fnOut' = None
    /\ UNCHANGED <<runVars, roundVars>>

CallSelectNextCandidate ==
    /\ fnOut = None
    /\ fnOut' = [kind |-> "selectNextCandidate",
                 result |-> selectNextCandidate(fnIn.responses)]
    /\ UNCHANGED <<runVars, roundVars, fnIn>>

NextCandidate == ReorderResponses \/ CallSelectNextCandidate

SpecCandidate == InitCandidate /\ [][NextCandidate]_vars

-----------------------------------------------------------------------------
(* SpecJudgeConsensus: detectJudgeConsensus on bounded arguments           *)

MaxEvaluations == 4

OkEvaluation(judgeId, round, selectedPositionId, scored, confidence) ==
    [judgeId |-> judgeId,
     round |-> round,
     selectedPositionId |-> selectedPositionId,
     scored |-> scored,
     confidence |-> confidence,
     tokens |-> 5,
     status |-> "ok",
     error |-> "null"]

SampleEvaluations ==
    {createErrorJudgeResponse(0, 1, "timeout"),
     OkEvaluation(0, 1, IdAb, {IdAb, IdC}, 90),
     OkEvaluation(0, 1, IdAb, {IdAb, IdC}, 50),
     OkEvaluation(0, 1, IdC, {IdAb, IdC}, 90),
     OkEvaluation(0, 1, IdC, {IdAb, IdC}, 60)}

SamplePositions ==
    <<[positionId |-> IdAb, positionText |-> TextAb],
      [positionId |-> IdC, positionText |-> TextC]>>

\* judgeConsensusThreshold: 0.5 and 0.6 (the default)
MajorityThresholds == {<<1, 2>>, <<3, 5>>}

\* judgeMinConfidence, in hundredths: 0.7 (the default)
MinConfidences == {70}

InitJudgeConsensus ==
    /\ NoRun /\ NoRound
    /\ \E es \in SeqsUpTo(SampleEvaluations, MaxEvaluations),
          mt \in MajorityThresholds, mc \in MinConfidences :
           fnIn = [evaluations |->
                       [i \in 1..Len(es) |-> [es[i] EXCEPT !.judgeId = i]],
                   positions |-> SamplePositions,
                   majorityThreshold |-> mt,
                   minConfidence |-> mc]
    /\ fnOut = None

CallDetectJudgeConsensus ==
    /\ fnOut = None
    /\ fnOut' = [kind |-> "detectJudgeConsensus",
                 result |-> detectJudgeConsensus(fnIn.evaluations,
                                fnIn.positions, fnIn.majorityThreshold,
                                fnIn.minConfidence)]
    /\ UNCHANGED <<runVars, roundVars, fnIn>>

NextJudgeConsensus == CallDetectJudgeConsensus

SpecJudgeConsensus == InitJudgeConsensus /\ [][NextJudgeConsensus]_vars

-----------------------------------------------------------------------------
(* Spec: runDebate from a fresh session to its output                      *)

MaxAgentRounds == 2
MaxJudgeRounds == 1

BaseConfigs ==
    [agents : {<<"a1", "a2">>},
     judges : {<<"j1", "j2", "j3">>},
     judgePanelEnabled : BOOLEAN,
     maxAgentRounds : 1..MaxAgentRounds,
     maxJudgeRounds : 1..MaxJudgeRounds,
     consensusThreshold : {<<67, 100>>},
     judgeConsensusThreshold : {<<3, 5>>},
     judgeMinConfidence : {70},
     judgePositionsScope : {"all_rounds"},
     checkpointDir : {NullText, <<"d">>},
     retries : {[maxAttempts |-> 1]},
     deterministicMode : {FALSE}]

\* The configurations a run is started with: the base ones, one without
\* the judge panel and with two judges only, and one whose judges see the
\* positions of the last round only.
Configs ==
    BaseConfigs
    \cup {[c EXCEPT !.judges = <<"j1", "j2">>] :
             c \in {b \in BaseConfigs : /\ ~b.judgePanelEnabled
                                        /\ b.maxAgentRounds = 1
                                        /\ b.checkpointDir = NullText}}
    \cup {[c EXCEPT !.judgePositionsScope = "last_round"] :
             c \in {b \in BaseConfigs : /\ b.judgePanelEnabled
                                        /\ b.maxAgentRounds = MaxAgentRounds
                                        /\ b.checkpointDir = NullText}}

NoData == [vote |-> "none", targetPositionId |-> NullId,
           newPositionText |-> NullText, selectedPositionId |-> NullId,
           scored |-> {}, confidence |-> 0]

CallThrows(error, retryable) ==
    [kind |-> "throw", error |-> error, retryable |-> retryable,
     content |-> "none", data |-> NoData, tokens |-> 0]

CallReturns(content, data) ==
    [kind |-> "content", error |-> "none", retryable |-> FALSE,
     content |-> content, data |-> data, tokens |-> 5]

AgentData(vote, targetPositionId, newPositionText, confidence) ==
    [NoData EXCEPT !.vote = vote,
                   !.targetPositionId = targetPositionId,
                   !.newPositionText = newPositionText,
                   !.confidence = confidence]

JudgeData(selectedPositionId, confidence) ==
    [NoData EXCEPT !.selectedPositionId = selectedPositionId,
                   !.scored = {IdAb, IdC},
                   !.confidence = confidence]

\* What the successive calls of one agent in one round may come to: the
\* model times out on every attempt, or answers at once with one of five
\* well-formed answers.
SampleAgentCalls ==
    {<<CallThrows("timeout", TRUE), CallThrows("timeout", TRUE)>>,
     <<CallReturns("valid", AgentData("yes", IdAb, NullText, 80))>>,
     <<CallReturns("valid", AgentData("no", NullId, TextAb, 60))>>,
     <<CallReturns("valid", AgentData("no", NullId, TextC, 60))>>,
     <<CallReturns("valid", AgentData("abstain", NullId, TextAb, 70))>>,
     <<CallReturns("valid", AgentData("abstain", NullId, TextC, 50))>>}

\* A well-formed position ID that no sample answer of an agent proposes
IdUnproposed == generatePositionId(<<>>)

\* What the calls of one judge in one round may come to: a provider error
\* that is not retried, or an answer selecting one of the two positions or
\* a position that was not among those presented.
SampleJudgeCalls ==
    {<<CallThrows("HTTP 400", FALSE)>>,
     <<CallReturns("valid", JudgeData(IdAb, 90))>>,
     <<CallReturns("valid", JudgeData(IdC, 60))>>,
     <<CallReturns("valid", JudgeData(IdUnproposed, 90))>>}

Init ==
    /\ config \in Configs
    /\ session = StateManager(config, "init", <<>>, <<>>, 0)
    /\ now = 0 /\ pc = "start"
    /\ checkpoint = None /\ output = None /\ call = NoCall
    /\ NoRound /\ NoFn

\* Where runDebate goes once runAgentDebatePhase has returned
AfterAgentPhase(s) ==
    IF s.phase = "judge_evaluation" THEN "judge_evaluation" ELSE "build_output"

\* runDebate up to the first round
StartDebate ==
    /\ pc = "start"
    /\ LET t == IF session.phase = "init"
                THEN transitionTo(session, "agent_debate", now)
                ELSE Returned(session)
       IN  /\ session' = t.session
           /\ pc' = IF t.error # "none" THEN "failed"
                    ELSE IF t.session.phase = "agent_debate"
                    THEN "agent_debate"
                    ELSE AfterAgentPhase(t.session)
    /\ UNCHANGED <<now, config, checkpoint, output, call, roundVars, fnVars>>

\* A variant of the loop condition that lets one more round through
MoreAgentRoundsOneMore(s, cfg) ==
    /\ s.phase = "agent_debate"
    /\ getCurrentAgentRound(s) <= cfg.maxAgentRounds + 1

\* while (phase === "agent_debate" && getCurrentAgentRound() <= max)
MoreAgentRounds(s, cfg) ==
    s.phase = "agent_debate" /\ getCurrentAgentRound(s) <= cfg.maxAgentRounds

\* while (phase === "judge_evaluation" && getCurrentJudgeRound() <= max)
MoreJudgeRounds(s, cfg) ==
    /\ s.phase = "judge_evaluation"
    /\ getCurrentJudgeRound(s) <= cfg.maxJudgeRounds

\* One agent round, and the end of the agent phase when it is the last
AgentRound(outcomes) ==
    /\ pc = "agent_debate"
    /\ MoreAgentRounds(session, config)
    /\ \E it \in {AgentDebateIteration(session, config, checkpoint,
              [i \in DOMAIN outcomes |->
                  withRetry(config.retries, config.deterministicMode,
                            outcomes[i])], now)} :
         \E end \in {IF it.end.error # "none" \/ it.returned
                         \/ MoreAgentRounds(it.end.session, config)
                      THEN it.end
                      ELSE AfterAgentRounds(it.end.session, config, now)} :
            /\ session' = end.session
            /\ checkpoint' = it.checkpoint
            /\ pc' = IF end.error # "none" THEN "failed"
                     ELSE IF MoreAgentRounds(end.session, config)
                     THEN "agent_debate"
                     ELSE AfterAgentPhase(end.session)
    /\ now' = now + 1
    /\ UNCHANGED <<config, output, call, roundVars, fnVars>>

\* One judge round, and the end of the judge phase when it is the last
JudgeRound(outcomes) ==
    /\ pc = "judge_evaluation"
    /\ MoreJudgeRounds(session, config)
    /\ \E it \in {JudgeEvaluationIteration(session, config, checkpoint,
              [i \in DOMAIN outcomes |->
                  withRetry(config.retries, config.deterministicMode,
                            outcomes[i])], now)} :
         \E end \in {IF it.end.error # "none" \/ it.returned
                         \/ MoreJudgeRounds(it.end.session, config)
                      THEN it.end
                      ELSE AfterJudgeRounds(it.end.session, config, now)} :
            /\ session' = end.session
            /\ checkpoint' = it.checkpoint
            /\ pc' = IF end.error # "none" THEN "failed"
                     ELSE IF MoreJudgeRounds(end.session, config)
                     THEN "judge_evaluation"
                     ELSE "build_output"
    /\ now' = now + 1
    /\ UNCHANGED <<config, output, call, roundVars, fnVars>>

BuildOutput ==
    /\ pc = "build_output"
    /\ output' = buildOutput(session)
    /\ pc' = "done"
    /\ UNCHANGED <<session, now, config, checkpoint, call, roundVars, fnVars>>

Next ==
    \/ StartDebate
    \/ \E outcomes \in [1..Len(config.agents) -> SampleAgentCalls] :
           AgentRound(outcomes)
    \/ \E outcomes \in [1..Len(config.judges) -> SampleJudgeCalls] :
           JudgeRound(outcomes)
    \/ BuildOutput

Spec == Init /\ [][Next]_vars

-----------------------------------------------------------------------------
(* SpecRound: one runDebateRound, agent by agent and attempt by attempt    *)
(*                                                                         *)
(* agentState[i].stage is "queued" while the agent's task waits in pLimit, *)
(* "calling" while an adapter.call of runAgent is pending, "settled" once  *)
(* runAgent has returned its response.                                     *)

MaxAgents == 2

AgentIds == <<"a1", "a2", "a3", "a4">>

RoundConfigs ==
    [agents : {SubSeq(AgentIds, 1, n) : n \in 2..MaxAgents},
     consensusThreshold : {<<67, 100>>},
     retries : {[maxAttempts |-> 1]},
     concurrency : {[maxConcurrentRequests |-> 1],
                    [maxConcurrentRequests |-> 2]},
     deterministicMode : BOOLEAN]

\* What one adapter.call may come to: a timeout, a non-retryable provider
\* error, text that is not JSON, JSON that needs repair, a yes vote without
\* its target, and two well-formed answers.
SampleCallOutcomes ==
    {CallThrows("timeout", TRUE),
     CallThrows("HTTP 400", FALSE),
     CallReturns("garbage", NoData),
     CallReturns("repairable", AgentData("no", NullId, TextC, 60)),
     CallReturns("valid", AgentData("yes", NullId, NullText, 80)),
     CallReturns("valid", AgentData("yes", IdAb, NullText, 80)),
     CallReturns("valid", AgentData("no", NullId, TextC, 60))}

QueuedAgent ==
    [stage |-> "queued", attempt |-> 0, retries |-> 0, failure |-> "none",
     response |-> None]

InitRound ==
    /\ NoRun /\ NoFn
    /\ \E cfg \in RoundConfigs :
         \E constructible \in [1..Len(cfg.agents) -> BOOLEAN] :
            /\ roundInput = [round |-> 2,
                             candidatePositionId |-> IdAb,
                             candidatePositionText |-> TextAb,
                             config |-> cfg,
                             constructible |-> constructible]
            /\ agentState = [i \in 1..Len(cfg.agents) |-> QueuedAgent]
    /\ roundResult = None

ActiveCount ==
    Cardinality({i \in DOMAIN agentState : agentState[i].stage = "calling"})

\* The kind of failure behind the result of an agent's calls
FailureOf(result, deterministicMode) ==
    IF result.kind = "throw"
    THEN (IF result.error = "timeout" THEN "timeout" ELSE "adapter_error")
    ELSE IF ~parseJsonWithRepair(result.content, ~deterministicMode)
    THEN "parse"
    ELSE IF ~AgentResponseSchema(result.data) THEN "schema"
    ELSE "none"

RunAgentOn(i, result) ==
    runAgent(roundInput.config.agents[i], roundInput.round,
             roundInput.candidatePositionId, roundInput.candidatePositionText,
             roundInput.config.deterministicMode, result)

\* A variant that starts a queued task whatever the number of tasks running
StartAgentUnlimited(i) ==
    /\ roundResult = None
    /\ agentState[i].stage = "queued"
    /\ agentState' =
          [agentState EXCEPT ![i] =
              IF roundInput.constructible[i]
              THEN [@ EXCEPT !.stage = "calling"]
              ELSE [@ EXCEPT
                      !.stage = "settled",
                      !.failure = "construction",
                      !.response =
                          RunAgentOn(i, CallThrows("Unknown provider",
                                                   FALSE))]]
    /\ UNCHANGED <<runVars, roundInput, roundResult, fnVars>>

\* pLimit starts the next queued task: runAgent runs up to its adapter.call,
\* or to its catch block when getAdapter throws.
StartAgent(i) ==
    /\ roundResult = None
    /\ agentState[i].stage = "queued"
    /\ \A j \in 1..(i - 1) : agentState[j].stage # "queued"
    /\ ActiveCount < roundInput.config.concurrency.maxConcurrentRequests
    /\ agentState' =
          [agentState EXCEPT ![i] =
              IF roundInput.constructible[i]
              THEN [@ EXCEPT !.stage = "calling"]
              ELSE [@ EXCEPT
                      !.stage = "settled",
                      !.failure = "construction",
                      !.response =
                          RunAgentOn(i, CallThrows("Unknown provider",
                                                   FALSE))]]
    /\ UNCHANGED <<runVars, roundInput, roundResult, fnVars>>

\* The pending adapter.call of agent i ends: withRetry calls again after a
\* retryable error while attempts remain, and otherwise runAgent goes on to
\* its response.
AdapterCallEnds(i, outcome) ==
    /\ roundResult = None
    /\ agentState[i].stage = "calling"
    /\ LET maxAttempts ==
               IF roundInput.config.deterministicMode THEN 0
               ELSE roundInput.config.retries.maxAttempts
       IN  agentState' =
             [agentState EXCEPT ![i] =
                 IF /\ outcome.kind = "throw"
                    /\ outcome.retryable
                    /\ @.attempt < maxAttempts
                 THEN [@ EXCEPT !.attempt = @ + 1, !.retries = @ + 1]
                 ELSE [@ EXCEPT
                         !.stage = "settled",
                         !.failure =
                             FailureOf(outcome,
                                 roundInput.config.deterministicMode),
                         !.response = RunAgentOn(i, outcome)]]
    /\ UNCHANGED <<runVars, roundInput, roundResult, fnVars>>

\* A variant in which the first failure ends the round, the agents that
\* have not settled being written off
FinishRoundOnFirstFailure ==
    /\ roundResult = None
    /\ \/ \A i \in DOMAIN agentState : agentState[i].stage = "settled"
       \/ \E i \in DOMAIN agentState :
             /\ agentState[i].stage = "settled"
             /\ agentState[i].response.status = "error"
    /\ roundResult' =
          DetectAndBuild(roundInput, roundInput.config,
                         [i \in DOMAIN agentState |->
                             IF agentState[i].stage = "settled"
                             THEN agentState[i].response
                             ELSE RunAgentOn(i, CallThrows("cancelled",
                                                           FALSE))],
                         now)
    /\ UNCHANGED <<runVars, roundInput, agentState, fnVars>>

\* Promise.all resolves: consensus detection and the RoundResult
FinishRound ==
    /\ roundResult = None
    /\ \A i \in DOMAIN agentState : agentState[i].stage = "settled"
    /\ roundResult' =
          DetectAndBuild(roundInput, roundInput.config,
                         [i \in DOMAIN agentState |-> agentState[i].response],
                         now)
    /\ UNCHANGED <<runVars, roundInput, agentState, fnVars>>

NextRound ==
    \/ \E i \in DOMAIN agentState : StartAgent(i)
    \/ \E i \in DOMAIN agentState, outcome \in SampleCallOutcomes :
           AdapterCallEnds(i, outcome)
    \/ FinishRound

SpecRound == InitRound /\ [][NextRound]_vars

-----------------------------------------------------------------------------
(* Properties of the consensus module                                      *)

IndicesWhere(rs, P(_)) == {i \in DOMAIN rs : P(rs[i])}

\* The least whole number k with k >= n * frac
LeastAtLeast(n, frac) ==
    CHOOSE k \in 0..(n * frac[1]) :
        /\ k * frac[2] >= n * frac[1]
        /\ \A j \in 0..(n * frac[1]) : j * frac[2] >= n * frac[1] => k <= j

\* C3: detectAgentConsensus reports consensus exactly when the candidate is
\* non-null, yes + no > 0 and yes >= ceil((yes + no) * threshold), where yes
\* counts the ok yes-votes for the candidate and no the ok no-votes; when
\* reached, the position is the candidate and the method is unanimous
\* exactly when yes = yes + no.
C3_AgentConsensusRule ==
    fnOut.kind = "detectAgentConsensus" =>
        LET rs == fnIn.responses
            c == fnIn.candidatePositionId
            YesFor(r) == r.status = "ok" /\ r.vote = "yes" /\ r.positionId = c
            No(r) == r.status = "ok" /\ r.vote = "no"
            yes == Cardinality(IndicesWhere(rs, YesFor))
            no == Cardinality(IndicesWhere(rs, No))
            res == fnOut.result
        IN  /\ res.reached <=>
                    /\ c # NullId
                    /\ yes + no > 0
                    /\ yes >= LeastAtLeast(yes + no, fnIn.threshold)
            /\ res.reached =>
                    /\ res.positionId = c
                    /\ res.method \in {"unanimous", "supermajority"}
                    /\ res.method = "unanimous" <=> yes = yes + no

\* C3 witness: consensus by supermajority, with a no-vote outstanding
C3_Witness ==
    /\ fnOut.kind = "detectAgentConsensus"
    /\ fnOut.result.reached
    /\ fnOut.result.method = "supermajority"
    /\ fnOut.result.voteTally.no > 0

RECURSIVE SumOver(_, _)
SumOver(rs, I) ==
    IF I = {} THEN 0
    ELSE LET i == CHOOSE j \in I : TRUE
         IN  rs[i].confidence + SumOver(rs, I \ {i})

\* a < b for hex strings of equal length
LexBefore(a, b) ==
    \E k \in DOMAIN a :
        /\ a[k] < b[k]
        /\ \A j \in 1..(k - 1) : a[j] = b[j]

C8_SelectionOrderIndependent ==
    fnOut.kind = "selectNextCandidate" =>
        LET first == selectNextCandidate(fnIn.original)
        IN  /\ fnOut.result.positionId = first.positionId
            /\ fnOut.result.positionText = first.positionText

-----------------------------------------------------------------------------
(* Properties of the StateManager                                          *)

LegalEdges ==
    {<<"init", "agent_debate">>,
     <<"agent_debate", "consensus_reached">>,
     <<"agent_debate", "judge_evaluation">>,
     <<"agent_debate", "deadlock">>,
     <<"judge_evaluation", "consensus_reached">>,
     <<"judge_evaluation", "deadlock">>}

\* C1: transitionTo(q) in phase p sets the phase to q exactly when p -> q is
\* one of the six legal edges; for every other pair, terminal phases
\* included, it throws InvalidStateTransitionError and leaves phase and
\* completedAt as they were.
C1_OnlyLegalTransitions ==
    [][call'.op = "transitionTo" =>
          IF <<session.phase, call'.arg>> \in LegalEdges
          THEN /\ call'.error = "none"
               /\ session'.phase = call'.arg
          ELSE /\ call'.error = "InvalidStateTransitionError"
               /\ session'.phase = session.phase
               /\ session'.metadata.completedAt
                      = session.metadata.completedAt]_vars

\* C1 witness: a transition out of a terminal phase has been refused
C1_Witness ==
    /\ call.op = "transitionTo"
    /\ call.error = "InvalidStateTransitionError"
    /\ session.phase \in {"consensus_reached", "deadlock"}
    /\ session.metadata.completedAt # NullTime
    /\ session.metadata.completedAt < now

-----------------------------------------------------------------------------
(* Properties of runDebate                                                 *)

\* C2: whenever an agent round of the session has consensusReached = true,
\* the session is in consensus_reached with a final verdict of source
\* agent_consensus for that round's consensus position, and no agent round
\* or judge round was run after it.
C2_ConsensusRoundEndsDebate ==
    pc # "start" =>
        \A i \in DOMAIN session.agentRounds :
            session.agentRounds[i].consensusReached =>
                /\ session.phase = "consensus_reached"
                /\ session.finalVerdict # None
                /\ session.finalVerdict.source = "agent_consensus"
                /\ session.finalVerdict.positionId
                       = session.agentRounds[i].consensusPositionId
                /\ i = Len(session.agentRounds)
                /\ session.judgeRounds = <<>>

\* C4: every recorded round has voteTally.total = yes + no + abstain,
\* votingTotal = yes + no and votingTotal <= eligible.
C4_TallyAddsUp ==
    pc # "start" =>
        \A i \in DOMAIN session.agentRounds :
            LET tally == session.agentRounds[i].voteTally
            IN  /\ tally.total = tally.yes + tally.no + tally.abstain
                /\ tally.votingTotal = tally.yes + tally.no
                /\ tally.votingTotal <= tally.eligible

\* C5: in a recorded round with a failed participant, voteTally.abstain
\* counts the error responses along with the ok abstentions, eligible
\* counts the ok responses only, votingTotal counts ok votes only, and
\* consensusReached is what the ok responses alone give.
C5_ErrorCountsAsAbstain ==
    pc # "start" =>
        \A i \in DOMAIN session.agentRounds :
            LET R == session.agentRounds[i]
                Abstains(r) == r.vote = "abstain"
                Votes(r) ==
                    /\ r.status = "ok"
                    /\ \/ r.vote = "no"
                       \/ r.vote = "yes"
                            /\ r.positionId = R.candidatePositionId
            IN  (\E k \in DOMAIN R.responses : IsError(R.responses[k])) =>
                    /\ R.voteTally.abstain
                           = Cardinality(IndicesWhere(R.responses, Abstains))
                    /\ R.voteTally.eligible
                           = Cardinality(IndicesWhere(R.responses, IsOk))
                    /\ R.voteTally.votingTotal
                           = Cardinality(IndicesWhere(R.responses, Votes))
                    /\ R.consensusReached
                           = detectAgentConsensus(
                                 SelectSeq(R.responses, IsOk),
                                 R.candidatePositionId,
                                 config.consensusThreshold).reached

\* C9: when every agent answered round 1 with an ok abstention that
\* proposes a position, the candidate of round 2 is the round-1 position
\* with the highest sum of confidence.
C9_AbstainRoundYieldsCandidate ==
    (pc # "start" /\ Len(session.agentRounds) >= 2) =>
        LET first == session.agentRounds[1].responses
            Proposes(r) ==
                r.status = "ok" /\ r.vote = "abstain" /\ TruthyId(r.positionId)
            Score(p) ==
                SumOver(first, {k \in DOMAIN first : first[k].positionId = p})
            candidate == session.agentRounds[2].candidatePositionId
        IN  (\A k \in DOMAIN first : Proposes(first[k])) =>
                /\ \E k \in DOMAIN first : first[k].positionId = candidate
                /\ \A k \in DOMAIN first :
                       Score(candidate) >= Score(first[k].positionId)

-----------------------------------------------------------------------------
(* Properties of runDebateRound                                            *)

\* C6: every RoundResult of runDebateRound has exactly one response per
\* configured agent, in the agents' order, whatever mix of adapter
\* construction failure, adapter error, timeout, JSON parse failure and
\* schema failure occurred; the response of each failed agent has
\* status = error, vote = abstain, positionId = null and confidence = 0.
C6_OneResponsePerAgent ==
    roundResult # None =>
        LET agents == roundInput.config.agents
            responses == roundResult.responses
        IN  /\ Len(responses) = Len(agents)
            /\ \A i \in DOMAIN agents : responses[i].agentId = agents[i]
            /\ \A i, j \in DOMAIN responses :
                   i # j => responses[i].agentId # responses[j].agentId
            /\ \A i \in DOMAIN agents :
                   agentState[i].failure # "none" =>
                       /\ responses[i].status = "error"
                       /\ responses[i].vote = "abstain"
                       /\ responses[i].positionId = NullId
                       /\ responses[i].confidence = 0

\* C6 witness: a round completed in which one agent timed out after a
\* retry and another returned JSON that fails the schema
C6_Witness ==
    /\ roundResult # None
    /\ \E i, j \in DOMAIN agentState :
          /\ agentState[i].failure = "timeout"
          /\ agentState[i].retries > 0
          /\ agentState[j].failure = "schema"
          /\ roundResult.responses[j].status = "error"

-----------------------------------------------------------------------------
(* Properties of the orchestrator's phases                                 *)

\* The rounds whose positions the judges are shown
RoundsInScope(s, cfg) ==
    IF cfg.judgePositionsScope = "last_round"
    THEN {Len(s.agentRounds)} \cap DOMAIN s.agentRounds
    ELSE DOMAIN s.agentRounds

\* The distinct position IDs of the ok responses, in those rounds, that
\* carry a position
DistinctPositionIds(s, cfg) ==
    {s.agentRounds[k].responses[i].positionId :
        <<k, i>> \in {ki \in RoundsInScope(s, cfg) \X (1..Len(cfg.agents)) :
            LET r == s.agentRounds[ki[1]].responses[ki[2]]
            IN  r.status = "ok" /\ r.positionId # NullId
                    /\ r.positionText # <<>>}}

JudgePanelCanRun(s, cfg) ==
    /\ cfg.judgePanelEnabled
    /\ Cardinality(DistinctPositionIds(s, cfg)) >= 2
    /\ Len(cfg.judges) >= 3

\* A step in which the agent loop ends without consensus
AgentLoopEndsWithoutConsensus ==
    /\ pc = "agent_debate"
    /\ pc' \in {"judge_evaluation", "build_output"}
    /\ session'.phase # "consensus_reached"

\* C11: when the agent loop ends without consensus, the session goes to
\* judge_evaluation exactly when the judge panel is enabled, the collected
\* positions hold at least two distinct position IDs and at least three
\* judges are configured; otherwise it goes to deadlock, and no judge round
\* is ever run.
C11_JudgePhaseEntry ==
    /\ [][AgentLoopEndsWithoutConsensus =>
            /\ session'.phase = "judge_evaluation"
                  <=> JudgePanelCanRun(session', config)
            /\ ~JudgePanelCanRun(session', config)
                  => session'.phase = "deadlock"]_vars
    /\ [](pc \in {"agent_debate", "judge_evaluation", "build_output", "done"}
            /\ session.judgeRounds # <<>>
          => JudgePanelCanRun(session, config))

\* The agent loop has ended without consensus on two distinct positions,
\* and the judges are about to run.
C11_Witness ==
    /\ pc = "judge_evaluation"
    /\ session.phase = "judge_evaluation"
    /\ session.judgeRounds = <<>>
    /\ Cardinality(DistinctPositionIds(session, config)) = 2

\* The agent loop has ended in deadlock although the panel is enabled: the
\* agents proposed one position only.
C11_WitnessDeadlock ==
    /\ pc = "build_output"
    /\ session.phase = "deadlock"
    /\ config.judgePanelEnabled
    /\ Cardinality(DistinctPositionIds(session, config)) = 1

\* The position IDs of the ok responses of every agent round of a session
ProposedPositionIds(rounds) ==
    UNION {{rounds[k].responses[i].positionId :
                i \in {j \in DOMAIN rounds[k].responses :
                           rounds[k].responses[j].status = "ok"}} :
           k \in DOMAIN rounds}

\* C12: in every DebateOutput whose verdict comes from agent_consensus or
\* judge_consensus, the verdict's positionId is the positionId of some ok
\* response of some agent round; for judge_consensus it is one of the
\* positions the judges were given.
C12_VerdictPositionWasProposed ==
    output # None =>
        /\ output.finalVerdict.source \in {"agent_consensus",
                                            "judge_consensus"}
              => output.finalVerdict.positionId
                    \in ProposedPositionIds(output.agentDebate.rounds)
        /\ output.finalVerdict.source = "judge_consensus"
              => output.finalVerdict.positionId
                    \in DistinctPositionIds(session, config)

\* The part of C12 about agent_consensus alone
C12_AgentVerdictWasProposed ==
    output # None /\ output.finalVerdict.source = "agent_consensus" =>
        output.finalVerdict.positionId
            \in ProposedPositionIds(output.agentDebate.rounds)

TerminalPhases == {"consensus_reached", "deadlock"}

\* C13: in every run that ends in a terminal phase the final verdict has
\* been set (exactly once: not zero times), and metadata.completedAt is
\* non-null from the moment the terminal phase is entered and null in every
\* non-terminal phase.
C13_VerdictSetAndCompletedAtStamped ==
    pc \in {"start", "agent_debate", "judge_evaluation", "build_output",
            "done"} =>
        /\ session.phase \in TerminalPhases <=>
              session.metadata.completedAt # NullTime
        /\ pc \in {"build_output", "done"}
              /\ session.phase \in TerminalPhases
              => session.finalVerdict # None

\* The part of C13 about a second setting: once set, the verdict of the
\* session is never replaced.
C13_VerdictNeverReplaced ==
    [][session.finalVerdict # None =>
          session'.finalVerdict = session.finalVerdict]_vars

\* The part of C13 about completedAt
C13_CompletedAtTracksPhase ==
    pc \in {"start", "agent_debate", "judge_evaluation", "build_output",
            "done"} =>
        (session.phase \in TerminalPhases <=>
            session.metadata.completedAt # NullTime)

\* C14: in every state of a run started fresh the session holds at most
\* maxAgentRounds agent rounds and at most maxJudgeRounds judge rounds; an
\* agent round is appended only while the phase is agent_debate and a judge
\* round only while it is judge_evaluation.
C14_RoundBudgets ==
    /\ [](pc # "idle" =>
            /\ Len(session.agentRounds) <= config.maxAgentRounds
            /\ Len(session.judgeRounds) <= config.maxJudgeRounds)
    /\ [][/\ session'.agentRounds # session.agentRounds
             => /\ session.phase = "agent_debate"
                /\ Len(session'.agentRounds) = Len(session.agentRounds) + 1
                /\ SubSeq(session'.agentRounds, 1, Len(session.agentRounds))
                      = session.agentRounds
          /\ session'.judgeRounds # session.judgeRounds
             => /\ session.phase = "judge_evaluation"
                /\ Len(session'.judgeRounds) = Len(session.judgeRounds) + 1
                /\ SubSeq(session'.judgeRounds, 1, Len(session.judgeRounds))
                      = session.judgeRounds]_vars

\* Both budgets have been used up: the last agent round and the last judge
\* round have been appended.
C14_Witness ==
    /\ config.maxAgentRounds = MaxAgentRounds
    /\ Len(session.agentRounds) = config.maxAgentRounds
    /\ Len(session.judgeRounds) = config.maxJudgeRounds

-----------------------------------------------------------------------------
(* SpecResume: a run that writes checkpoints, and a second runDebate that  *)
(* is given the checkpoint file of the first as options.resumeFrom         *)
(*                                                                         *)
(* The first process may stop after any round.  What the second process    *)
(* reads is the file as saved or a file changed since; fnIn holds the file *)
(* and the HMAC key of the second process while loadCheckpoint runs, fnOut *)
(* what loadCheckpoint came to, and config the config argument of the run. *)

ResumeConfigs == {c \in BaseConfigs : c.checkpointDir # NullText}

ResumeAgentCalls ==
    {<<CallThrows("timeout", TRUE), CallThrows("timeout", TRUE)>>,
     <<CallReturns("valid", AgentData("yes", IdAb, NullText, 80))>>,
     <<CallReturns("valid", AgentData("no", NullId, TextAb, 60))>>,
     <<CallReturns("valid", AgentData("no", NullId, TextC, 60))>>}

ResumeJudgeCalls ==
    {<<CallThrows("HTTP 400", FALSE)>>,
     <<CallReturns("valid", JudgeData(IdAb, 90))>>}

InitResume ==
    /\ config \in ResumeConfigs
    /\ session = StateManager(config, "init", <<>>, <<>>, 0)
    /\ now = 0 /\ pc = "start"
    /\ checkpoint = None /\ output = None /\ call = NoCall
    /\ NoRound /\ NoFn

\* The other number of agent rounds within the bound
OtherMaxAgentRounds(cfg) ==
    [cfg EXCEPT !.maxAgentRounds = MaxAgentRounds + 1 - @]

\* A judge round without evaluations, as a file may hold one
EmptyJudgeRound ==
    [roundNumber |-> 1, positionIds |-> <<>>, evaluations |-> <<>>,
     consensusReached |-> FALSE, consensusPositionId |-> NullId,
     avgConfidence |-> <<0, 1>>, timestamp |-> 0]

\* The saved file with the fields before its integrity field replaced
Changed(saved, rest) == WithIntegrity(rest, saved.integrity)

\* Files that differ from the saved one in one field, the integrity field
\* being as saved
ChangedFiles(saved) ==
    {Changed(saved, [WithoutIntegrity(saved) EXCEPT !.version = "2.2.0"]),
     Changed(saved, [WithoutIntegrity(saved) EXCEPT !.sessionId = "s2"]),
     Changed(saved, [WithoutIntegrity(saved) EXCEPT !.phase = "deadlock"]),
     Changed(saved, [WithoutIntegrity(saved) EXCEPT !.phase = "paused"]),
     Changed(saved, [WithoutIntegrity(saved) EXCEPT
                        !.config = OtherMaxAgentRounds(@)]),
     Changed(saved, [WithoutIntegrity(saved) EXCEPT
                        !.config.maxAgentRounds = 0]),
     Changed(saved, [WithoutIntegrity(saved) EXCEPT
                        !.configHash = sha256(None)]),
     Changed(saved, [WithoutIntegrity(saved) EXCEPT !.agentRounds = Tail(@)]),
     Changed(saved, [WithoutIntegrity(saved) EXCEPT
                        !.judgeRounds = IF @ = <<>> THEN <<EmptyJudgeRound>>
                                        ELSE <<>>]),
     [saved EXCEPT !.integrity.sha256 = sha256(None)]}

\* The saved file with its session ID changed and its SHA-256 recomputed,
\* the HMAC being as saved
Rehashed(saved) ==
    WithIntegrity([WithoutIntegrity(saved) EXCEPT !.sessionId = "s2"],
        [sha256 |-> sha256([WithoutIntegrity(saved) EXCEPT
                               !.sessionId = "s2"]),
         hmac |-> saved.integrity.hmac])

\* What the second process may be started on: the file it reads, the value
\* of its HMAC key and its config argument
ResumeInputs(data, cfg) ==
    \* the file as saved, with or without a key in either process
    [file : {CheckpointFile(data, NoKey), CheckpointFile(data, "k1")},
     hmacKey : {NoKey, "k1", "k2"},
     config : {cfg}]
    \* the file as saved, another config being passed
    \cup [file : {CheckpointFile(data, "k1")},
          hmacKey : {"k1"},
          config : {OtherMaxAgentRounds(cfg)}]
    \* a file that cannot be read, and files changed since they were saved
    \cup [file : {None} \cup ChangedFiles(CheckpointFile(data, "k1")),
          hmacKey : {"k1"},
          config : {cfg}]
    \* a file changed and hashed again, or with another HMAC or none
    \cup [file : {Rehashed(CheckpointFile(data, "k1")),
                  [CheckpointFile(data, "k1") EXCEPT
                      !.integrity.hmac = hmacSha256(@.macOf, "k2")],
                  [CheckpointFile(data, "k1") EXCEPT
                      !.integrity.hmac = None]},
          hmacKey : {NoKey, "k1"},
          config : {cfg}]

\* runDebate(config, {resumeFrom}) up to the return of loadCheckpoint, in a
\* new process: the first has stopped after a save, or has finished.
LoadCheckpoint(input) ==
    /\ pc \in {"agent_debate", "judge_evaluation", "build_output", "done"}
    /\ checkpoint # None
    /\ fnOut = None
    /\ fnIn' = [file |-> input.file, hmacKey |-> input.hmacKey]
    /\ fnOut' = loadCheckpoint(input.file, input.hmacKey)
    /\ call' = [op |-> "loadCheckpoint", arg |-> "resumeFrom",
                error |-> fnOut'.error]
    /\ pc' = IF fnOut'.error # "none" THEN "failed" ELSE "loaded"
    /\ config' = input.config
    /\ session' = None
    /\ output' = None
    /\ UNCHANGED <<now, checkpoint, roundVars>>

\* new StateManager({config: checkpointData.config, sessionId, initialPhase,
\* agentRounds, judgeRounds})
RestoreSession ==
    /\ pc = "loaded"
    /\ session' = [StateManager(fnOut.data.config, fnOut.data.phase,
                                fnOut.data.agentRounds,
                                fnOut.data.judgeRounds, now)
                      EXCEPT !.id = fnOut.data.sessionId]
    /\ pc' = "start"
    /\ fnIn' = None
    /\ call' = NoCall
    /\ UNCHANGED <<now, config, checkpoint, output, roundVars, fnOut>>

\* runAgentDebatePhase when its loop runs no round
EndAgentPhase ==
    /\ pc = "agent_debate"
    /\ ~MoreAgentRounds(session, config)
    /\ \E end \in {AfterAgentRounds(session, config, now)} :
          /\ session' = end.session
          /\ pc' = IF end.error # "none" THEN "failed"
                   ELSE AfterAgentPhase(end.session)
    /\ UNCHANGED <<now, config, checkpoint, output, call, roundVars, fnVars>>

\* runJudgeEvaluationPhase when its loop runs no round
EndJudgePhase ==
    /\ pc = "judge_evaluation"
    /\ ~MoreJudgeRounds(session, config)
    /\ \E end \in {AfterJudgeRounds(session, config, now)} :
          /\ session' = end.session
          /\ pc' = IF end.error # "none" THEN "failed" ELSE "build_output"
    /\ UNCHANGED <<now, config, checkpoint, output, call, roundVars, fnVars>>

RunStep ==
    \/ StartDebate
    \/ \E outcomes \in [1..Len(config.agents) -> ResumeAgentCalls] :
           AgentRound(outcomes)
    \/ EndAgentPhase
    \/ \E outcomes \in [1..Len(config.judges) -> ResumeJudgeCalls] :
           JudgeRound(outcomes)
    \/ EndJudgePhase
    \/ BuildOutput
    \/ RestoreSession

NextResume ==
    \/ RunStep
    \/ \E input \in (IF checkpoint = None THEN {}
                     ELSE ResumeInputs(checkpoint, config)) :
           LoadCheckpoint(input)

SpecResume == InitResume /\ [][NextResume]_vars

\* A round is being run: the loop condition holds and runDebateRound or
\* runJudgeRound is awaiting its adapter calls
RoundPending ==
    \/ pc = "agent_debate" /\ MoreAgentRounds(session, config)
    \/ pc = "judge_evaluation" /\ MoreJudgeRounds(session, config)

\* The steps of runDebate between two rounds, which await nothing
BetweenRounds ==
    \/ StartDebate
    \/ EndAgentPhase
    \/ EndJudgePhase
    \/ BuildOutput
    \/ RestoreSession

\* The process goes on running between the rounds, and every adapter call
\* returns or fails, so that no round is pending for ever; a process need
\* not be stopped and started again.
FairSpecResume ==
    SpecResume /\ WF_vars(BetweenRounds) /\ []<>~RoundPending

-----------------------------------------------------------------------------
(* Properties of runs, fresh and resumed                                   *)

\* The run in progress was started on a checkpoint that loaded
Resumed == fnOut # None /\ fnOut.error = "none" /\ pc # "loaded"

\* C15: every adapter call returning or failing, every run of runDebate
\* comes to its end, and the DebateOutput it returns has phase
\* consensus_reached or deadlock, never init, agent_debate or
\* judge_evaluation; a run ends without an output only when its checkpoint
\* does not load.
C15_RunEndsInTerminalPhase ==
    /\ <>[](pc \in {"done", "failed"})
    /\ [](pc = "done" => output.session.phase \in TerminalPhases)
    /\ [](pc = "failed" => call.op = "loadCheckpoint" /\ session = None)

\* A resumed run has returned its output.
C15_Witness ==
    /\ pc = "done"
    /\ Resumed
    /\ output.session.phase \in TerminalPhases

RECURSIVE SumInts(_)
SumInts(ns) == IF ns = <<>> THEN 0 ELSE Head(ns) + SumInts(Tail(ns))

TokensOfAgentRound(r) ==
    SumInts([i \in DOMAIN r.responses |-> r.responses[i].tokens])

TokensOfJudgeRound(r) ==
    SumInts([i \in DOMAIN r.evaluations |-> r.evaluations[i].tokens])

ErrorsOfAgentRound(r) ==
    Cardinality({i \in DOMAIN r.responses : r.responses[i].status = "error"})

ErrorsOfJudgeRound(r) ==
    Cardinality({i \in DOMAIN r.evaluations :
                    r.evaluations[i].status = "error"})

CountersMatchRounds ==
    /\ output.session.totalTokens =
          SumInts([k \in DOMAIN output.agentDebate.rounds |->
                      TokensOfAgentRound(output.agentDebate.rounds[k])])
          + SumInts([k \in DOMAIN output.judgePanel.rounds |->
                        TokensOfJudgeRound(output.judgePanel.rounds[k])])
    /\ output.session.totalErrors =
          SumInts([k \in DOMAIN output.agentDebate.rounds |->
                      ErrorsOfAgentRound(output.agentDebate.rounds[k])])
          + SumInts([k \in DOMAIN output.judgePanel.rounds |->
                        ErrorsOfJudgeRound(output.judgePanel.rounds[k])])

\* C16: at the end of every run, fresh or resumed from a checkpoint,
\* totalTokens is the sum of tokenUsage.total over every response of every
\* agent round and every evaluation of every judge round of the output, and
\* totalErrors is the number of those whose status is error.
C16_CountersMatchRounds == pc = "done" => CountersMatchRounds

\* The part of C16 about runs started fresh
C16_FreshCountersMatchRounds ==
    pc = "done" /\ ~Resumed => CountersMatchRounds

\* The file cannot be read or parsed, or does not fit CheckpointSchema
SchemaInvalid(file) ==
    IF file = None THEN TRUE ELSE ~CheckpointSchema(file)

\* One of the four reasons for which a checkpoint must not load
MustNotLoad(file, hmacKey) ==
    \/ SchemaInvalid(file)
    \/ file.version # SPEC_VERSION
    \/ sha256(WithoutIntegrity(file)) # file.integrity.sha256
    \/ /\ hmacKey # NoKey
       /\ file.integrity.hmac # None
       /\ file.integrity.hmac
             # hmacSha256(sha256(WithoutIntegrity(file)), hmacKey)

\* The file differs from the one saved under hmacKey in a field other than
\* integrity, which is as saved
ChangedSinceSaved(file, data, hmacKey) ==
    /\ file # None
    /\ file.integrity = CheckpointFile(data, hmacKey).integrity
    /\ WithoutIntegrity(file) # WithoutIntegrity(CheckpointFile(data, hmacKey))

\* C18: loadCheckpoint fails, and runDebate then runs no round, whenever
\* the checkpoint's schema is invalid, its version differs from the spec
\* version, the SHA-256 recomputed over the checkpoint without its integrity
\* field differs from integrity.sha256 (as after any change to sessionId,
\* phase, config, configHash, agentRounds or judgeRounds since saving), or
\* an HMAC key is configured and the non-null hmac does not match;
\* otherwise it returns the sessionId, phase, config, agentRounds and
\* judgeRounds of the file.
C18_LoadVerifiesCheckpoint ==
    /\ [](call.op = "loadCheckpoint" =>
            /\ fnOut.error # "none"
                  <=> MustNotLoad(fnIn.file, fnIn.hmacKey)
            /\ (\E k \in {NoKey, "k1"} :
                    ChangedSinceSaved(fnIn.file, checkpoint, k))
                  => fnOut.error # "none"
            /\ fnOut.error # "none" => pc = "failed" /\ session = None
            /\ fnOut.error = "none" =>
                  fnOut.data = [sessionId |-> fnIn.file.sessionId,
                                phase |-> fnIn.file.phase,
                                config |-> fnIn.file.config,
                                agentRounds |-> fnIn.file.agentRounds,
                                judgeRounds |-> fnIn.file.judgeRounds])
    /\ [][pc # "failed"]_vars

\* A file whose content was changed and hashed again is refused for its
\* HMAC, the key being configured.
C18_Witness ==
    /\ call.op = "loadCheckpoint"
    /\ fnOut.error = "CheckpointIntegrityError: hmac"
    /\ sha256(WithoutIntegrity(fnIn.file)) = fnIn.file.integrity.sha256
    /\ pc = "failed"

\* A file changed since it was saved is refused for its SHA-256.
C18_WitnessSha ==
    /\ call.op = "loadCheckpoint"
    /\ fnOut.error = "CheckpointIntegrityError: sha256"
    /\ ChangedSinceSaved(fnIn.file, checkpoint, "k1")

\* The file as saved loads under the key it was saved with.
C18_WitnessLoads ==
    /\ call.op = "loadCheckpoint"
    /\ fnOut.error = "none"
    /\ fnIn.file = CheckpointFile(checkpoint, "k1")
    /\ fnIn.hmacKey = "k1"

\* The run was resumed from a checkpoint in agent_debate that holds fewer
\* agent rounds than its config allows
ResumedInAgentDebate ==
    /\ Resumed
    /\ fnOut.data.phase = "agent_debate"
    /\ Len(fnOut.data.agentRounds) < fnOut.data.config.maxAgentRounds

\* The resumed run has gone past the point where its next round is due
PastNextRound ==
    \/ pc \in {"judge_evaluation", "build_output", "done"}
    \/ pc = "agent_debate"
          /\ Len(session.agentRounds) > Len(fnOut.data.agentRounds)

\* Round n + 1 was run on the candidate selected from round n, n being the
\* number of rounds of the checkpoint, and rounds 1..n are as restored
NextRoundFollowsCheckpoint ==
    LET n == Len(fnOut.data.agentRounds)
    IN  /\ Len(session.agentRounds) > n
        /\ SubSeq(session.agentRounds, 1, n) = fnOut.data.agentRounds
        /\ session.agentRounds[n + 1].roundNumber = n + 1
        /\ session.agentRounds[n + 1].candidatePositionId =
              getNextCandidate(fnOut.data.agentRounds[n]).positionId
        /\ Len(session.agentRounds[n + 1].responses)
              = Len(fnOut.data.config.agents)

\* C19: a run resumed from a valid checkpoint that holds n agent rounds in
\* phase agent_debate, n < maxAgentRounds, starts from the phase, rounds and
\* config of the checkpoint, runs agent round n + 1 next with the candidate
\* selected from round n's responses, and keeps rounds 1..n unchanged.
C19_ResumeRunsNextRound ==
    ResumedInAgentDebate =>
        /\ pc = "start" =>
              /\ session.phase = fnOut.data.phase
              /\ session.agentRounds = fnOut.data.agentRounds
              /\ session.judgeRounds = fnOut.data.judgeRounds
              /\ session.config = fnOut.data.config
        /\ PastNextRound => NextRoundFollowsCheckpoint

\* The same when the config passed to the resumed run is the config of the
\* checkpoint
C19_ResumeWithSameConfig ==
    ResumedInAgentDebate /\ config = fnOut.data.config =>
        /\ pc = "start" =>
              /\ session.phase = fnOut.data.phase
              /\ session.agentRounds = fnOut.data.agentRounds
              /\ session.judgeRounds = fnOut.data.judgeRounds
              /\ session.config = fnOut.data.config
        /\ PastNextRound => NextRoundFollowsCheckpoint

\* A run resumed under the checkpoint's own config has run its next round.
C19_WitnessSameConfig ==
    /\ ResumedInAgentDebate
    /\ config = fnOut.data.config
    /\ PastNextRound
    /\ session.agentRounds[Len(session.agentRounds)].candidatePositionId
          # NullId

-----------------------------------------------------------------------------
(* SpecRetries: a run of one agent round whose adapter calls are given     *)
(*                                                                         *)
(* fnIn.outcomes[i][k] is what the k-th adapter.call of agent i comes to,  *)
(* should withRetry make that call.                                        *)

MaxAttempts == 2

\* Configurations of one agent round without a judge panel, with every
\* retry budget up to MaxAttempts, in and out of deterministic mode
RetryConfigs ==
    {[c EXCEPT !.retries = [maxAttempts |-> m], !.deterministicMode = d] :
        c \in {b \in BaseConfigs : /\ ~b.judgePanelEnabled
                                   /\ b.maxAgentRounds = 1
                                   /\ b.checkpointDir = NullText},
        m \in 0..MaxAttempts, d \in BOOLEAN}

\* What one adapter.call may come to: a timeout, a provider error that is
\* not retryable, or a well-formed answer
RetryCallOutcomes ==
    {CallThrows("timeout", TRUE),
     CallThrows("HTTP 400", FALSE),
     CallReturns("valid", AgentData("no", NullId, TextAb, 60))}

RetryAgentCalls == [1..(MaxAttempts + 1) -> RetryCallOutcomes]

InitRetries ==
    /\ config \in RetryConfigs
    /\ session = StateManager(config, "init", <<>>, <<>>, 0)
    /\ now = 0 /\ pc = "start"
    /\ checkpoint = None /\ output = None /\ call = NoCall
    /\ NoRound
    /\ fnIn \in [outcomes : [1..Len(config.agents) -> RetryAgentCalls]]
    /\ fnOut = None

NextRetries ==
    \/ StartDebate
    \/ AgentRound(fnIn.outcomes)
    \/ BuildOutput

SpecRetries == InitRetries /\ [][NextRetries]_vars

-----------------------------------------------------------------------------
(* Properties of the retry and error counters                              *)

IsTimeout(o) == o.kind = "throw" /\ o.error = "timeout"

\* Every call agent i could make in the round times out
TimesOutAlways(i) ==
    \A k \in DOMAIN fnIn.outcomes[i] : IsTimeout(fnIn.outcomes[i][k])

\* The first call of agent i returns an answer
AnswersAtOnce(i) == fnIn.outcomes[i][1].kind = "content"

\* The number of calls at the head of calls that throw a retryable error
LeadingRetryable(calls) ==
    CHOOSE n \in 0..Len(calls) :
        /\ \A k \in 1..n : calls[k].kind = "throw" /\ calls[k].retryable
        /\ n < Len(calls) =>
              ~(calls[n + 1].kind = "throw" /\ calls[n + 1].retryable)

\* The retries the configuration allows: none in deterministic mode
EffectiveMaxAttempts ==
    IF config.deterministicMode THEN 0 ELSE config.retries.maxAttempts

\* The attempts after the first that agent i makes in the round
AttemptsAfterFirst(i) ==
    LET n == LeadingRetryable(fnIn.outcomes[i])
    IN  IF n < EffectiveMaxAttempts THEN n ELSE EffectiveMaxAttempts

\* Agent i's last attempt throws
LastAttemptThrows(i) ==
    fnIn.outcomes[i][AttemptsAfterFirst(i) + 1].kind = "throw"

RoundOfRetriesDone == session # None /\ Len(session.agentRounds) = 1

\* Exactly one agent times out on every call and the others answer at once
OneAgentTimesOut ==
    /\ RoundOfRetriesDone
    /\ \E i \in DOMAIN fnIn.outcomes :
          /\ TimesOutAlways(i)
          /\ \A j \in DOMAIN fnIn.outcomes \ {i} : AnswersAtOnce(j)

\* C17 (as stated): when one participant's adapter call times out on its
\* first attempt and on every retry of a round, totalErrors increases by
\* exactly 1 and totalRetries by exactly retries.maxAttempts.
C17_TimeoutCountsMaxAttempts ==
    OneAgentTimesOut =>
        /\ session.metadata.totalErrors = 1
        /\ session.metadata.totalRetries = config.retries.maxAttempts

\* C17 (amended): when one participant's adapter call times out on its
\* first attempt and on every retry of a round, that participant yields an
\* error response, totalErrors increases by exactly 1 and totalRetries by
\* exactly retries.maxAttempts outside deterministic mode and by 0 in
\* deterministic mode; in general, over a round, totalRetries increases by
\* the number of adapter attempts after the first and totalErrors by the
\* number of participants whose last attempt fails.
C17_RetriesAndErrorsCounted ==
    /\ ~RoundOfRetriesDone =>
          session = None \/ (/\ session.metadata.totalRetries = 0
                             /\ session.metadata.totalErrors = 0)
    /\ RoundOfRetriesDone =>
          /\ \A i \in DOMAIN fnIn.outcomes :
                TimesOutAlways(i) =>
                    session.agentRounds[1].responses[i].status = "error"
          /\ session.metadata.totalRetries =
                SumInts([i \in DOMAIN fnIn.outcomes |->
                            AttemptsAfterFirst(i)])
          /\ session.metadata.totalErrors =
                Cardinality({i \in DOMAIN fnIn.outcomes :
                                LastAttemptThrows(i)})
    /\ OneAgentTimesOut =>
          /\ session.metadata.totalErrors = 1
          /\ session.metadata.totalRetries = EffectiveMaxAttempts

\* C17 witness: outside deterministic mode one agent has timed out on its
\* first attempt and on both retries, the other has answered at once
C17_Witness ==
    /\ OneAgentTimesOut
    /\ ~config.deterministicMode
    /\ config.retries.maxAttempts = MaxAttempts
    /\ session.metadata.totalRetries = MaxAttempts
    /\ session.metadata.totalErrors = 1

\* In deterministic mode the agent that times out is not called again
C17_WitnessDeterministic ==
    /\ OneAgentTimesOut
    /\ config.deterministicMode
    /\ config.retries.maxAttempts = MaxAttempts
    /\ session.metadata.totalRetries = 0
    /\ session.metadata.totalErrors = 1

-----------------------------------------------------------------------------
(* SpecCli: the debate command, from its options to process.exit           *)
(*                                                                         *)
(* pc is "cli" before the command's action runs and "exited" once          *)
(* process.exit has been called; call then holds the call of process.exit: *)
(* its code, the message of the error that was caught and the result that  *)
(* runDebate returned.  A run that has saved a checkpoint may be followed  *)
(* by a second invocation with --resume.                                   *)

EXIT_CODE_SUCCESS == 0
EXIT_CODE_ERROR == 1
EXIT_CODE_DEADLOCK == 2

CliConfigs == ResumeConfigs

\* What JSON.parse may make of the file named by --config: None when the
\* file cannot be read or parsed, a valid configuration, or one that the
\* schema rejects
CliConfigJsons ==
    {None} \cup CliConfigs
    \cup {[c EXCEPT !.agents = <<"a1">>] :
             c \in {b \in CliConfigs : b.maxAgentRounds = 1}}
    \cup {[c EXCEPT !.maxAgentRounds = 0] :
             c \in {b \in CliConfigs : b.maxAgentRounds = 1}}

\* The options of an invocation without --resume
CliOptions == [configJson : CliConfigJsons, dryRun : BOOLEAN]

\* What --output may name
OutputPaths == {"none", "writable", "unwritable"}

InitCli ==
    /\ pc = "cli"
    /\ config = None /\ session = None
    /\ now = 0
    /\ checkpoint = None /\ output = None /\ call = NoCall
    /\ NoRound /\ NoFn

\* process.exit(code), after error was caught or result was returned
ProcessExit(code, error, result) ==
    [op |-> "process.exit", arg |-> code, error |-> error, result |-> result]

\* A variant of the exit code that reports success for every phase
ExitCodeAlwaysSuccess(result) == EXIT_CODE_SUCCESS

\* The exit code the command chooses for the result of runDebate
ExitCodeOf(result) ==
    IF result.session.phase = "consensus_reached" THEN EXIT_CODE_SUCCESS
    ELSE IF result.session.phase = "deadlock" THEN EXIT_CODE_DEADLOCK
    ELSE EXIT_CODE_ERROR

\* The command's action up to the call of runDebate and its new
\* StateManager, or to process.exit when the config cannot be loaded, is
\* invalid, or --dry-run is given
DebateCommand(options) ==
    /\ pc = "cli"
    /\ fnIn' = options
    /\ IF options.configJson = None
       THEN /\ call' = ProcessExit(EXIT_CODE_ERROR, "ConfigLoadError", None)
            /\ pc' = "exited"
            /\ UNCHANGED <<config, session>>
       ELSE IF ~DebateConfigSchema(options.configJson)
       THEN /\ call' = ProcessExit(EXIT_CODE_ERROR, "ConfigValidationError",
                                   None)
            /\ pc' = "exited"
            /\ UNCHANGED <<config, session>>
       ELSE IF options.dryRun
       THEN /\ call' = ProcessExit(EXIT_CODE_SUCCESS, "none", None)
            /\ pc' = "exited"
            /\ UNCHANGED <<config, session>>
       ELSE /\ config' = options.configJson
            /\ session' = StateManager(options.configJson, "init", <<>>,
                                       <<>>, now)
            /\ pc' = "start"
            /\ UNCHANGED call
    /\ UNCHANGED <<now, checkpoint, output, roundVars, fnOut>>

\* The end of runDebate and of the command: runDebate has thrown, or it
\* writes the output to outputPath and returns it, and the command exits
ExitCommand(outputPath) ==
    /\ pc \in {"done", "failed"}
    /\ call' =
          IF pc = "failed"
          THEN ProcessExit(EXIT_CODE_ERROR,
                           IF call.op = "loadCheckpoint" THEN call.error
                           ELSE "InvalidStateTransitionError",
                           None)
          ELSE IF outputPath = "unwritable"
          THEN ProcessExit(EXIT_CODE_ERROR, "writeFile", None)
          ELSE ProcessExit(ExitCodeOf(output), "none", output)
    /\ pc' = "exited"
    /\ UNCHANGED <<session, now, config, checkpoint, output, roundVars,
                   fnVars>>

NextCli ==
    \/ \E options \in CliOptions : DebateCommand(options)
    \/ StartDebate
    \/ \E outcomes \in (IF pc = "agent_debate"
                        THEN [1..Len(config.agents) -> ResumeAgentCalls]
                        ELSE {}) :
           AgentRound(outcomes)
    \/ EndAgentPhase
    \/ \E outcomes \in (IF pc = "judge_evaluation"
                        THEN [1..Len(config.judges) -> ResumeJudgeCalls]
                        ELSE {}) :
           JudgeRound(outcomes)
    \/ EndJudgePhase
    \/ BuildOutput
    \/ \E input \in (IF checkpoint = None THEN {}
                     ELSE ResumeInputs(checkpoint, config)) :
           LoadCheckpoint(input)
    \/ RestoreSession
    \/ \E outputPath \in OutputPaths : ExitCommand(outputPath)

SpecCli == InitCli /\ [][NextCli]_vars

-----------------------------------------------------------------------------
(* Properties of the exit code                                             *)

Exited == pc = "exited"

\* runDebate returned a result whose phase is phase
RunEndsIn(phase) ==
    /\ call.result # None
    /\ call.result = output
    /\ output.session.phase = phase

\* The file named by --config could not be loaded or failed the schema
ConfigRejected ==
    /\ "configJson" \in DOMAIN fnIn
    /\ \/ fnIn.configJson = None
       \/ ~DebateConfigSchema(fnIn.configJson)

\* --dry-run was given with a valid configuration
DryRunOfValidConfig ==
    /\ "dryRun" \in DOMAIN fnIn
    /\ fnIn.dryRun
    /\ ~ConfigRejected

\* loadCheckpoint threw in runDebate
CheckpointRejected == fnOut # None /\ fnOut.error # "none"

\* runDebate threw past loadCheckpoint: a transition was invalid, or the
\* output could not be written
DebateThrew == call.error \in {"InvalidStateTransitionError", "writeFile"}

ErrorRaised == ConfigRejected \/ CheckpointRejected \/ DebateThrew

\* C20 (as stated): the debate command exits with code 0 exactly when the
\* run ends in phase consensus_reached, with code 2 exactly when it ends in
\* phase deadlock, and with code 1 whenever config validation, checkpoint
\* loading or runDebate raises an error.
C20_ExitCodeFollowsPhase ==
    Exited =>
        /\ call.arg = EXIT_CODE_SUCCESS <=> RunEndsIn("consensus_reached")
        /\ call.arg = EXIT_CODE_DEADLOCK <=> RunEndsIn("deadlock")
        /\ ErrorRaised => call.arg = EXIT_CODE_ERROR

\* C20 (amended): the debate command exits with code 0 exactly when the
\* run ends in phase consensus_reached or --dry-run is given with a valid
\* configuration (no debate is run then), with code 2 exactly when the run
\* ends in phase deadlock, and with code 1 exactly when loading or
\* validating the config, loading the checkpoint or runDebate raises an
\* error.
C20_ExitCodes ==
    Exited =>
        /\ call.arg \in {EXIT_CODE_SUCCESS, EXIT_CODE_ERROR,
                         EXIT_CODE_DEADLOCK}
        /\ call.arg = EXIT_CODE_SUCCESS <=>
              RunEndsIn("consensus_reached") \/ DryRunOfValidConfig
        /\ call.arg = EXIT_CODE_DEADLOCK <=> RunEndsIn("deadlock")
        /\ call.arg = EXIT_CODE_ERROR <=> ErrorRaised
        /\ DryRunOfValidConfig => session = None /\ output = None

\* C20 witness: a run that ended in deadlock has exited with code 2
C20_Witness ==
    /\ Exited
    /\ RunEndsIn("deadlock")
    /\ call.arg = EXIT_CODE_DEADLOCK

\* A resumed run that reached consensus has exited with code 0
C20_WitnessConsensus ==
    /\ Exited
    /\ Resumed
    /\ RunEndsIn("consensus_reached")
    /\ call.arg = EXIT_CODE_SUCCESS

\* A checkpoint that fails verification has led to exit code 1
C20_WitnessCheckpoint ==
    /\ Exited
    /\ CheckpointRejected
    /\ call.arg = EXIT_CODE_ERROR

\* --dry-run has exited with code 0 without a run
C20_WitnessDryRun ==
    /\ Exited
    /\ DryRunOfValidConfig
    /\ call.arg = EXIT_CODE_SUCCESS
    /\ output = None

-----------------------------------------------------------------------------
(* SpecRoundClock: one runDebateRound while the clock advances             *)
(*                                                                         *)
(* The round starts at time 0; timeouts.roundMs is counted in ticks of the *)
(* clock.  An adapter call that never returns is a call whose              *)
(* AdapterCallEnds step is never taken.                                    *)

RoundMs == 1

\* cfg with its timeouts field
WithTimeouts(cfg, timeouts) ==
    [f \in DOMAIN cfg \cup {"timeouts"} |->
        IF f = "timeouts" THEN timeouts ELSE cfg[f]]

InitRoundClock ==
    /\ NoRun /\ NoFn
    /\ \E cfg \in RoundConfigs :
         \E constructible \in [1..Len(cfg.agents) -> BOOLEAN] :
            /\ roundInput = [round |-> 2,
                             candidatePositionId |-> IdAb,
                             candidatePositionText |-> TextAb,
                             config |-> WithTimeouts(cfg,
                                            [roundMs |-> RoundMs]),
                             constructible |-> constructible]
            /\ agentState = [i \in 1..Len(cfg.agents) |-> QueuedAgent]
    /\ roundResult = None

NextRoundClock ==
    \/ NextRound
    \/ Tick

SpecRoundClock == InitRoundClock /\ [][NextRoundClock]_vars

-----------------------------------------------------------------------------
(* Properties of timeouts and limits                                       *)

\* Promise.all of the round is still waiting for an agent
RoundWaiting ==
    /\ roundResult = None
    /\ \E i \in DOMAIN agentState : agentState[i].stage # "settled"

\* C21: if the adapter calls of a round have not all finished when
\* timeouts.roundMs has elapsed since the round started, the round is
\* aborted instead of waiting further: the round is never found still
\* waiting for an agent after roundMs.
C21_RoundAbortedAtTimeout ==
    now > roundInput.config.timeouts.roundMs => ~RoundWaiting

\* The round is still waiting for a pending adapter call at the last time
\* of the clock, past roundMs
C21_StillWaitingPastTimeout ==
    /\ now = MaxClock
    /\ now > roundInput.config.timeouts.roundMs
    /\ roundResult = None
    /\ \E i \in DOMAIN agentState : agentState[i].stage = "calling"

-----------------------------------------------------------------------------
(* SpecLimits: runDebate under a limit on the total of tokens              *)
(*                                                                         *)
(* Tokens are counted in the unit of the sample answers (5 per answer).    *)

MaxTotalTokens == 5

\* cfg with its limits field
WithLimits(cfg, limits) ==
    [f \in DOMAIN cfg \cup {"limits"} |->
        IF f = "limits" THEN limits ELSE cfg[f]]

InitLimits ==
    /\ config \in {WithLimits(c, [maxTotalTokens |-> MaxTotalTokens]) :
                      c \in {b \in BaseConfigs : b.checkpointDir = NullText}}
    /\ session = StateManager(config, "init", <<>>, <<>>, 0)
    /\ now = 0 /\ pc = "start"
    /\ checkpoint = None /\ output = None /\ call = NoCall
    /\ NoRound /\ NoFn

SpecLimits == InitLimits /\ [][Next]_vars

\* The tokens of the first n agent rounds and the first m judge rounds
TokensThrough(s, n, m) ==
    SumInts([k \in 1..n |-> TokensOfAgentRound(s.agentRounds[k])])
    + SumInts([k \in 1..m |-> TokensOfJudgeRound(s.judgeRounds[k])])

\* C22: once the session's accumulated totalTokens exceeds
\* limits.maxTotalTokens, no further agent or judge round is started: every
\* recorded round was started with a total within the limit.
C22_NoRoundPastTokenLimit ==
    /\ \A n \in DOMAIN session.agentRounds :
          TokensThrough(session, n - 1, 0) <= config.limits.maxTotalTokens
    /\ \A m \in DOMAIN session.judgeRounds :
          TokensThrough(session, Len(session.agentRounds), m - 1)
             <= config.limits.maxTotalTokens

\* The run has come to its output with more tokens than the limit and
\* without an error
C22_FinishedPastTokenLimit ==
    /\ pc = "done"
    /\ output.session.totalTokens > config.limits.maxTotalTokens
    /\ Len(session.agentRounds) = MaxAgentRounds
    /\ session.judgeRounds # <<>>

-----------------------------------------------------------------------------
(* Properties of the recorded rounds                                       *)

\* rounds begins with the rounds of before, unchanged
Extends(rounds, before) ==
    /\ Len(rounds) >= Len(before)
    /\ SubSeq(rounds, 1, Len(before)) = before

\* C23: in every reachable session state the i-th agent round has
\* roundNumber = i, so that roundNumber strictly increases between
\* consecutive rounds; a round already appended is never modified or
\* removed by a later operation, and a resumed session starts from the
\* rounds that were saved.
C23_AgentRoundsInOrder ==
    /\ [](session # None =>
            \A i \in DOMAIN session.agentRounds :
                session.agentRounds[i].roundNumber = i)
    /\ [][session # None /\ session' # None =>
            Extends(session'.agentRounds, session.agentRounds)]_vars
    /\ [][session = None /\ session' # None =>
            session'.agentRounds = checkpoint.agentRounds]_vars

\* C23 witness: a resumed session holds the round it was restored with and
\* a second round appended after it
C23_Witness ==
    /\ Resumed
    /\ session # None
    /\ Len(fnOut.data.agentRounds) = 1
    /\ Len(session.agentRounds) = 2
    /\ session.agentRounds[1] = fnOut.data.agentRounds[1]
    /\ session.agentRounds[2].roundNumber = 2

\* The responses of every recorded agent round, with the round's candidate
RecordedResponses ==
    UNION {{[response |-> session.agentRounds[k].responses[i],
             candidatePositionId |->
                 session.agentRounds[k].candidatePositionId] :
               i \in DOMAIN session.agentRounds[k].responses} :
             k \in DOMAIN session.agentRounds}

\* C24: in round 1 every recorded response has vote = abstain; an answer
\* that votes yes or no in round 1 is not accepted as an ok response with
\* that vote.
C24_RoundOneVotesAbstain ==
    \A rec \in RecordedResponses :
        rec.response.round = 1 => rec.response.vote = "abstain"

\* Round 1 is recorded with an ok response that votes no
C24_RoundOneNoVote ==
    \E rec \in RecordedResponses :
        /\ rec.response.round = 1
        /\ rec.response.status = "ok"
        /\ rec.response.vote = "no"

\* Hashing the response's own position text yields its position ID
RehashesToOwnId(r) == r.positionId = generatePositionId(r.positionText)

\* C25: for every ok response in any round whose positionId is non-null,
\* positionId equals generatePositionId(positionText), for yes votes as
\* well as for no and abstain votes.
C25_PositionIdIsHashOfText ==
    \A rec \in RecordedResponses :
        rec.response.status = "ok" /\ rec.response.positionId # NullId =>
            RehashesToOwnId(rec.response)

\* The part of C25 that holds: the responses that vote no or abstain
C25_OwnTextRehashes ==
    \A rec \in RecordedResponses :
        /\ rec.response.status = "ok"
        /\ rec.response.positionId # NullId
        /\ rec.response.vote # "yes"
        => RehashesToOwnId(rec.response)

\* A yes vote is recorded in round 1, where there is no candidate, with the
\* ID it named and an empty position text
C25_YesVoteWithoutCandidate ==
    \E rec \in RecordedResponses :
        /\ rec.response.status = "ok"
        /\ rec.response.vote = "yes"
        /\ rec.candidatePositionId = NullId
        /\ rec.response.positionId = IdAb
        /\ rec.response.positionText = <<>>

-----------------------------------------------------------------------------
(* Properties of the judge phase                                           *)

LastJudgeRound == session.judgeRounds[Len(session.judgeRounds)]

\* The judges of the last round whose evaluation is ok and selects id
SelectorsOf(id) ==
    {i \in DOMAIN LastJudgeRound.evaluations :
        /\ LastJudgeRound.evaluations[i].status = "ok"
        /\ LastJudgeRound.evaluations[i].selectedPositionId = id}

\* The position IDs selected by an ok evaluation of the last round
SelectedIds ==
    {LastJudgeRound.evaluations[i].selectedPositionId :
        i \in {j \in DOMAIN LastJudgeRound.evaluations :
                  LastJudgeRound.evaluations[j].status = "ok"}}

\* id is selected by at least as many judges as any other position
IsPlurality(id) ==
    /\ id \in SelectedIds
    /\ \A other \in SelectedIds :
          Cardinality(SelectorsOf(other)) <= Cardinality(SelectorsOf(id))

\* frac is the mean confidence of the judges who selected id
IsMeanConfidenceOf(frac, id) ==
    frac[1] * Cardinality(SelectorsOf(id)) =
        frac[2] * SumInts([k \in 1..Len(LastJudgeRound.evaluations) |->
                             IF k \in SelectorsOf(id)
                             THEN LastJudgeRound.evaluations[k].confidence
                             ELSE 0])

\* The judge loop has run out of rounds without consensus, some judge of
\* the last round having selected a position
JudgeLoopExhausted ==
    /\ pc \in {"build_output", "done"}
    /\ session.phase = "deadlock"
    /\ session.judgeRounds # <<>>
    /\ SelectedIds # {}

\* C26: when the judge loop exhausts maxJudgeRounds without consensus, the
\* session is in deadlock and the final verdict is the last judge round's
\* plurality position, with confidence equal to the mean confidence of the
\* judges who selected that position and source = deadlock.
C26_JudgeDeadlockVerdict ==
    JudgeLoopExhausted =>
        /\ session.finalVerdict # None
        /\ session.finalVerdict.source = "deadlock"
        /\ IsPlurality(session.finalVerdict.positionId)
        /\ IsMeanConfidenceOf(session.finalVerdict.confidence,
                              session.finalVerdict.positionId)

\* The part of C26 that holds: the verdict is a plurality position of the
\* last round with source deadlock, and its confidence is the mean
\* confidence of its judges when these reach the majority threshold and 0
\* when they do not
C26_JudgeDeadlockVerdictAsCoded ==
    JudgeLoopExhausted =>
        /\ session.finalVerdict # None
        /\ session.finalVerdict.source = "deadlock"
        /\ IsPlurality(session.finalVerdict.positionId)
        /\ session.finalVerdict.confidence = LastJudgeRound.avgConfidence
        /\ \/ IsMeanConfidenceOf(session.finalVerdict.confidence,
                                 session.finalVerdict.positionId)
           \/ session.finalVerdict.confidence[1] = 0

\* Two judges disagree, the third fails: the verdict names one of the two
\* positions with confidence 0
C26_ZeroConfidenceVerdict ==
    /\ JudgeLoopExhausted
    /\ session.finalVerdict # None
    /\ Cardinality(SelectorsOf(session.finalVerdict.positionId)) = 1
    /\ session.finalVerdict.confidence[1] = 0
    /\ \A i \in SelectorsOf(session.finalVerdict.positionId) :
          LastJudgeRound.evaluations[i].confidence > 0

-----------------------------------------------------------------------------
(* Properties of single-round and deterministic runs                       *)

SingleRoundNoPanel ==
    config.maxAgentRounds = 1 /\ ~config.judgePanelEnabled

\* C27: with maxAgentRounds = 1 and judgePanelEnabled = false, every run
\* executes exactly one agent round, that round has candidate (null, null)
\* and never reaches consensus, and the session is in deadlock directly
\* after it, whatever the agents answer.
C27_SingleRoundDeadlocks ==
    /\ [](SingleRoundNoPanel /\ pc \in {"build_output", "done"} =>
            /\ Len(session.agentRounds) = 1
            /\ session.agentRounds[1].candidatePositionId = NullId
            /\ session.agentRounds[1].candidatePositionText = NullText
            /\ ~session.agentRounds[1].consensusReached
            /\ session.judgeRounds = <<>>
            /\ session.phase = "deadlock")
    /\ [][SingleRoundNoPanel /\ pc = "agent_debate" =>
            /\ pc' = "build_output"
            /\ Len(session'.agentRounds) = 1
            /\ session'.phase = "deadlock"]_vars
    /\ [](SingleRoundNoPanel /\ pc = "agent_debate" =>
            session.agentRounds = <<>>)
    /\ [](SingleRoundNoPanel => pc \notin {"judge_evaluation", "failed"})

\* C27 witness: the single round in which both agents vote yes for the
\* same position has ended in deadlock
C27_Witness ==
    /\ SingleRoundNoPanel
    /\ pc = "done"
    /\ output.session.phase = "deadlock"
    /\ Len(session.agentRounds) = 1
    /\ \A i \in DOMAIN session.agentRounds[1].responses :
          /\ session.agentRounds[1].responses[i].status = "ok"
          /\ session.agentRounds[1].responses[i].vote = "yes"
          /\ session.agentRounds[1].responses[i].positionId = IdAb

-----------------------------------------------------------------------------
(* SpecRoundOrder: one runDebateRound with a fixed answer per agent        *)
(*                                                                         *)
(* fnIn.answers[i][k] is what the k-th adapter.call of agent i comes to;   *)
(* fnOut is the sequence of the agents in the order their runAgent         *)
(* promises have resolved.  The steps of the agents interleave freely      *)
(* within the limit of pLimit.                                             *)

FixedAnswers ==
    {CallThrows("timeout", TRUE),
     CallReturns("garbage", NoData),
     CallReturns("valid", AgentData("yes", IdAb, NullText, 80)),
     CallReturns("valid", AgentData("no", NullId, TextC, 60))}

InitRoundOrder ==
    /\ NoRun
    /\ \E cfg \in RoundConfigs :
          /\ roundInput = [round |-> 2,
                           candidatePositionId |-> IdAb,
                           candidatePositionText |-> TextAb,
                           config |-> cfg,
                           constructible |->
                               [i \in 1..Len(cfg.agents) |-> TRUE]]
          /\ agentState = [i \in 1..Len(cfg.agents) |-> QueuedAgent]
          /\ fnIn \in [answers :
                         [1..Len(cfg.agents) ->
                             [1..(cfg.retries.maxAttempts + 1) ->
                                 FixedAnswers]]]
    /\ roundResult = None
    /\ fnOut = <<>>

\* The state of agent i once its pending adapter.call has come to outcome
AfterCall(i, outcome) ==
    LET maxAttempts ==
            IF roundInput.config.deterministicMode THEN 0
            ELSE roundInput.config.retries.maxAttempts
    IN  IF /\ outcome.kind = "throw"
           /\ outcome.retryable
           /\ agentState[i].attempt < maxAttempts
        THEN [agentState[i] EXCEPT !.attempt = @ + 1, !.retries = @ + 1]
        ELSE [agentState[i] EXCEPT
                !.stage = "settled",
                !.failure = FailureOf(outcome,
                                roundInput.config.deterministicMode),
                !.response = RunAgentOn(i, outcome)]

\* The pending adapter.call of agent i comes to its fixed answer
AnswerArrives(i) ==
    /\ roundResult = None
    /\ agentState[i].stage = "calling"
    /\ \E after \in {AfterCall(i,
                        fnIn.answers[i][agentState[i].attempt + 1])} :
          /\ agentState' = [agentState EXCEPT ![i] = after]
          /\ fnOut' = IF after.stage = "settled" THEN Append(fnOut, i)
                      ELSE fnOut
    /\ UNCHANGED <<runVars, roundInput, roundResult, fnIn>>

\* A variant that lists the responses in the order they arrived
ResponsesInCompletionOrder(state, order) ==
    [k \in DOMAIN order |-> state[order[k]].response]

\* await Promise.all(responsePromises): the responses in the order of the
\* promises, which is the order of config.agents
ResponsesOf(state, order) == [i \in DOMAIN state |-> state[i].response]

\* Promise.all resolves: consensus detection and the RoundResult
CollectResponses ==
    /\ roundResult = None
    /\ \A i \in DOMAIN agentState : agentState[i].stage = "settled"
    /\ roundResult' =
          DetectAndBuild(roundInput, roundInput.config,
                         ResponsesOf(agentState, fnOut), now)
    /\ UNCHANGED <<runVars, roundInput, agentState, fnVars>>

NextRoundOrder ==
    \/ \E i \in DOMAIN agentState : StartAgent(i)
    \/ \E i \in DOMAIN agentState : AnswerArrives(i)
    \/ CollectResponses

SpecRoundOrder == InitRoundOrder /\ [][NextRoundOrder]_vars

\* What withRetry makes of the fixed answers of each agent
FixedResults ==
    [i \in DOMAIN fnIn.answers |->
        withRetry(roundInput.config.retries,
                  roundInput.config.deterministicMode, fnIn.answers[i])]

\* C28: for a fixed answer per agent, the RoundResult of a round (order of
\* responses, vote tally, consensus decision) is the same whatever order
\* the concurrent adapter calls complete in: it is the result of the
\* agents' answers taken in the order of config.agents, and so are the
\* numbers of retries that the DebateOutput counts.
C28_CompletionOrderIrrelevant ==
    roundResult # None =>
        /\ roundResult =
              runDebateRound(roundInput, roundInput.config, FixedResults, now)
        /\ \A i \in DOMAIN agentState :
              /\ roundResult.responses[i].agentId =
                    roundInput.config.agents[i]
              /\ agentState[i].retries = FixedResults[i].retries

\* C28 witness: the round has its result after the second agent's call
\* completed before the first agent's, with answers that differ
C28_Witness ==
    /\ roundResult # None
    /\ fnOut = <<2, 1>>
    /\ roundResult.responses[1].vote = "yes"
    /\ roundResult.responses[2].vote = "no"


-----------------------------------------------------------------------------
(* SpecCallOptions: the adapter calls one participant makes in one round   *)
(*                                                                         *)
(* fnIn is the participant ("agent" or "judge"), its configured            *)
(* temperature (<<>> when the configuration leaves it out, else <<t>> in   *)
(* hundredths), the retry budget, the mode, and what each adapter.call in  *)
(* turn comes to.  fnOut.calls is the options of every adapter.call made   *)
(* so far, fnOut.onRetry the number of runs of onRetry, fnOut.response     *)
(* what runAgent / runJudge returned.                                      *)

\* Temperatures are in hundredths
DEFAULT_AGENT_TEMPERATURE == 70
DEFAULT_JUDGE_TEMPERATURE == 30

\* A variant that passes the configured temperature in every mode
temperatureAsConfigured(deterministicMode, temperature, fallback) ==
    IF temperature = <<>> THEN fallback ELSE temperature[1]

\* temperature: config.deterministicMode ? 0 : (x.temperature ?? fallback)
temperatureOf(deterministicMode, temperature, fallback) ==
    IF deterministicMode THEN 0
    ELSE IF temperature = <<>> THEN fallback
    ELSE temperature[1]

Temperatures == {<<>>, <<0>>, <<100>>}

\* What one adapter.call may come to: a retryable timeout, a provider
\* error that is not retryable, text that is no JSON at all, text that
\* repairJson turns into a well-formed answer, or a well-formed answer
AnswersTo(participant) ==
    LET data == IF participant = "agent"
                THEN AgentData("no", NullId, <<"a", "b">>, 60)
                ELSE JudgeData(generatePositionId(<<"a", "b">>), 90)
    IN  {CallThrows("timeout", TRUE),
         CallThrows("HTTP 400", FALSE),
         CallReturns("garbage", NoData),
         CallReturns("repairable", data),
         CallReturns("valid", data)}

InitCallOptions ==
    /\ NoRun /\ NoRound
    /\ \E participant \in {"agent", "judge"} :
          fnIn \in [participant : {participant},
                    temperature : Temperatures,
                    deterministicMode : BOOLEAN,
                    retries : [maxAttempts : 0..MaxAttempts],
                    answers : [1..(MaxAttempts + 1) ->
                                  AnswersTo(participant)]]
    /\ fnOut = [calls |-> <<>>, onRetry |-> 0, done |-> FALSE,
                response |-> None]

\* The options runAgent / runJudge passes to adapter.call
CallOptionsOf(in) ==
    [temperature |->
        temperatureOf(in.deterministicMode, in.temperature,
                      IF in.participant = "agent"
                      THEN DEFAULT_AGENT_TEMPERATURE
                      ELSE DEFAULT_JUDGE_TEMPERATURE)]

\* What runAgent / runJudge makes of the outcome of the wrapped call
ResponseTo(in, outcome) ==
    IF in.participant = "agent"
    THEN runAgent("a1", 2, generatePositionId(<<"a", "b">>), <<"a", "b">>,
                  in.deterministicMode, outcome)
    ELSE runJudge("j1", 1, in.deterministicMode, outcome)

\* One turn of the loop of withRetry: adapter.call(options) is made and
\* comes to its outcome; a retryable failure within the budget runs
\* onRetry and leaves the loop running, anything else ends the wrapped
\* call, and runAgent / runJudge builds its response.
AdapterCall ==
    /\ fnIn # None /\ ~fnOut.done
    /\ LET attempt == Len(fnOut.calls)
           outcome == fnIn.answers[attempt + 1]
           maxAttempts == IF fnIn.deterministicMode THEN 0
                          ELSE fnIn.retries.maxAttempts
           calls == Append(fnOut.calls, CallOptionsOf(fnIn))
       IN  IF /\ outcome.kind = "throw"
              /\ outcome.retryable
              /\ attempt < maxAttempts
           THEN fnOut' = [fnOut EXCEPT !.calls = calls,
                                       !.onRetry = @ + 1]
           ELSE fnOut' = [fnOut EXCEPT !.calls = calls,
                                       !.done = TRUE,
                                       !.response =
                                           ResponseTo(fnIn, outcome)]
    /\ UNCHANGED <<runVars, roundVars, fnIn>>

NextCallOptions == AdapterCall

SpecCallOptions == InitCallOptions /\ [][NextCallOptions]_vars

\* The first answer of the model is text that JSON.parse rejects
FirstAnswerNotJson ==
    /\ fnIn.answers[1].kind = "content"
    /\ fnIn.answers[1].content # "valid"

\* C29: with deterministicMode = true the adapter of a participant is
\* called exactly once in the round, whatever the call comes to, and
\* onRetry never runs; the call is made with temperature 0; and an answer
\* that is not valid JSON as it stands becomes an error response, whether
\* or not repairJson could have mended it.
C29_DeterministicMode ==
    fnIn.deterministicMode =>
        /\ Len(fnOut.calls) <= 1
        /\ fnOut.onRetry = 0
        /\ \A k \in DOMAIN fnOut.calls : fnOut.calls[k].temperature = 0
        /\ fnOut.done =>
              /\ Len(fnOut.calls) = 1
              /\ fnOut.response =
                    ResponseTo(fnIn,
                        withRetry(fnIn.retries, TRUE, fnIn.answers).result)
              /\ FirstAnswerNotJson =>
                    /\ fnOut.response.status = "error"
                    /\ fnOut.response.error = "Failed to parse JSON"

\* C29 witness: in deterministic mode a participant configured with a
\* temperature above 0 and a retry budget has made its call, which came to
\* text that repairJson would have mended, and has its error response
C29_Witness ==
    /\ fnIn.deterministicMode
    /\ fnIn.temperature = <<100>>
    /\ fnIn.retries.maxAttempts = MaxAttempts
    /\ fnIn.answers[1].kind = "content"
    /\ fnIn.answers[1].content = "repairable"
    /\ fnOut.done
    /\ fnOut.calls = <<[temperature |-> 0]>>
    /\ fnOut.response.status = "error"

\* C29 second witness: in deterministic mode a call that timed out, which
\* is retryable, was not made again
C29_WitnessTimeout ==
    /\ fnIn.deterministicMode
    /\ fnIn.retries.maxAttempts = MaxAttempts
    /\ fnIn.answers[1].kind = "throw"
    /\ fnIn.answers[1].retryable
    /\ fnOut.done
    /\ Len(fnOut.calls) = 1
    /\ fnOut.onRetry = 0

-----------------------------------------------------------------------------
(* SpecJudgeScores: one runJudgeRound over presented positions             *)
(*                                                                         *)
(* fnIn.positions is the positions presented to the judges, fnIn.results   *)
(* what the wrapped call of each judge came to; fnOut is the               *)
(* JudgeRoundResult.  data.scored is the key set of scoresByPositionId in  *)
(* the judge's answer.                                                     *)

ScoredBy(selectedPositionId, scored, confidence) ==
    [NoData EXCEPT !.selectedPositionId = selectedPositionId,
                   !.scored = scored,
                   !.confidence = confidence]

\* What the call of one judge may come to: a provider error, an answer
\* with a score for both positions, an answer with a score for the
\* selected position only, an answer with no score at all, and an answer
\* with a score under a key that is not 12 characters long
JudgeAnswers ==
    {CallThrows("HTTP 400", FALSE),
     CallReturns("valid", ScoredBy(IdAb, {IdAb, IdC}, 90)),
     CallReturns("valid", ScoredBy(IdC, {IdC}, 80)),
     CallReturns("valid", ScoredBy(IdAb, {}, 90)),
     CallReturns("valid", ScoredBy(IdAb, {IdAb, <<"c">>}, 90))}

InitJudgeScores ==
    /\ NoRun /\ NoRound
    /\ \E cfg \in {[b EXCEPT !.deterministicMode = d] :
                      b \in {c \in BaseConfigs : /\ c.judgePanelEnabled
                                                 /\ c.maxAgentRounds = 1
                                                 /\ c.maxJudgeRounds = 1
                                                 /\ c.checkpointDir = NullText},
                      d \in BOOLEAN} :
          fnIn \in [config : {cfg},
                    positions : {SamplePositions, <<SamplePositions[1]>>},
                    results : [1..Len(cfg.judges) ->
                                  [result : JudgeAnswers, retries : {0}]]]
    /\ fnOut = None

CallRunJudgeRound ==
    /\ fnIn # None /\ fnOut = None
    /\ fnOut' = runJudgeRound(1, fnIn.positions, fnIn.config, fnIn.results,
                              now)
    /\ UNCHANGED <<runVars, roundVars, fnIn>>

NextJudgeScores == CallRunJudgeRound

SpecJudgeScores == InitJudgeScores /\ [][NextJudgeScores]_vars

\* The evaluation has a score for every position ID of the round
ScoresEvery(evaluation, positionIds) ==
    \A k \in DOMAIN positionIds : positionIds[k] \in evaluation.scored

\* C30: every judge evaluation recorded with status ok has a score for
\* every position ID presented to the judges in its round.
C30_OkEvaluationScoresEveryPosition ==
    fnOut # None =>
        \A i \in DOMAIN fnOut.evaluations :
            fnOut.evaluations[i].status = "ok" =>
                ScoresEvery(fnOut.evaluations[i], fnOut.positionIds)

\* What the code does hold to: an evaluation is ok exactly when the call
\* returned an answer that passes JudgeEvaluationSchema, and it carries the
\* scores of the answer as they came.
C30_OkEvaluationAsCoded ==
    fnOut # None =>
        \A i \in DOMAIN fnOut.evaluations :
            LET result == fnIn.results[i].result
            IN  /\ fnOut.evaluations[i].status = "ok" <=>
                      /\ result.kind = "content"
                      /\ JudgeEvaluationSchema(result.data)
                /\ fnOut.evaluations[i].status = "ok" =>
                      fnOut.evaluations[i].scored = result.data.scored

\* An evaluation without a score for a presented position is recorded as
\* ok and its vote makes the consensus of the round
C30_OkWithMissingScore ==
    /\ fnOut # None
    /\ Len(fnOut.positionIds) = 2
    /\ fnOut.consensusReached
    /\ \A i \in DOMAIN fnOut.evaluations :
          /\ fnOut.evaluations[i].status = "ok"
          /\ ~ScoresEvery(fnOut.evaluations[i], fnOut.positionIds)

-----------------------------------------------------------------------------
(* Properties of withRetry, on SpecCallOptions                             *)

\* What the wrapped call of the participant comes to, and after how many
\* runs of onRetry
WrappedCall == withRetry(fnIn.retries, fnIn.deterministicMode, fnIn.answers)

IsRetryableError(outcome) == outcome.kind = "throw" /\ outcome.retryable

\* C31: a call of an adapter wrapped by withRetry with maxAttempts = m
\* invokes the underlying adapter at most 1 + m times; what it comes to is
\* the outcome of its last invocation, every invocation before the last
\* threw a retryable error, and the last one either returned, threw an
\* error that is not retryable, or was invocation 1 + m (the only
\* invocation in deterministic mode); onRetry ran once before each
\* invocation after the first, so the invocations number 1 + the runs of
\* onRetry.
C31_WithRetryAttempts ==
    /\ Len(fnOut.calls) <= 1 + fnIn.retries.maxAttempts
    /\ fnOut.onRetry = IF fnOut.done THEN Len(fnOut.calls) - 1
                       ELSE Len(fnOut.calls)
    /\ \A k \in DOMAIN fnOut.calls :
          k < Len(fnOut.calls) \/ ~fnOut.done =>
              IsRetryableError(fnIn.answers[k])
    /\ fnOut.done =>
          /\ Len(fnOut.calls) = 1 + WrappedCall.retries
          /\ WrappedCall.result = fnIn.answers[Len(fnOut.calls)]
          /\ fnOut.response = ResponseTo(fnIn, WrappedCall.result)
          /\ \A k \in 1..WrappedCall.retries :
                IsRetryableError(fnIn.answers[k])
          /\ IsRetryableError(WrappedCall.result) =>
                Len(fnOut.calls) =
                    1 + (IF fnIn.deterministicMode THEN 0
                         ELSE fnIn.retries.maxAttempts)

\* C31 witness: with maxAttempts = 2 the first two invocations timed out,
\* onRetry ran twice, and the third invocation returned the answer
C31_Witness ==
    /\ ~fnIn.deterministicMode
    /\ fnIn.retries.maxAttempts = 2
    /\ fnOut.done
    /\ Len(fnOut.calls) = 3
    /\ fnOut.onRetry = 2
    /\ fnIn.answers[3].kind = "content"
    /\ fnOut.response.status = "ok"

\* C31 second witness: an error that is not retryable on the second
\* invocation ended the call with one run of onRetry and budget left
C31_WitnessNotRetryable ==
    /\ ~fnIn.deterministicMode
    /\ fnIn.retries.maxAttempts = 2
    /\ fnOut.done
    /\ Len(fnOut.calls) = 2
    /\ fnOut.onRetry = 1
    /\ fnIn.answers[2].kind = "throw"
    /\ ~fnIn.answers[2].retryable

\* C31 third witness: the budget was used up by retryable errors, and the
\* last of them is what the call came to
C31_WitnessExhausted ==
    /\ ~fnIn.deterministicMode
    /\ fnIn.retries.maxAttempts = 1
    /\ fnOut.done
    /\ Len(fnOut.calls) = 2
    /\ IsRetryableError(fnIn.answers[2])
    /\ fnOut.response.status = "error"

\* The participant's response is the error response made of a model
\* answer that did not parse or did not pass the schema
ModelOutputError ==
    /\ fnOut.done
    /\ fnOut.response.status = "error"
    /\ fnOut.response.error \in
          {"Failed to parse JSON", "Schema validation failed"}

\* C32: a participant gets the error response for a model answer that
\* cannot be parsed or fails validation only when the attempts the retry
\* policy allows (1 + maxAttempts, 1 in deterministic mode) are used up.
C32_OutputErrorsRetried ==
    ModelOutputError =>
        Len(fnOut.calls) =
            1 + (IF fnIn.deterministicMode THEN 0
                 ELSE fnIn.retries.maxAttempts)

\* What the code does hold to: an adapter.call that returns ends the
\* wrapped call whatever the text is, so only thrown errors were retried
\* and the answer that failed to parse is the one of the last invocation
C32_ReturnedAnswerEndsCall ==
    /\ \A k \in DOMAIN fnOut.calls :
          fnIn.answers[k].kind = "content" =>
              fnOut.done /\ k = Len(fnOut.calls)
    /\ ModelOutputError =>
          /\ fnIn.answers[Len(fnOut.calls)].kind = "content"
          /\ fnOut.onRetry = Len(fnOut.calls) - 1

\* With a retry budget of 2 and retries allowed, the first answer was no
\* JSON and the participant has its error response after a single call
C32_ErrorWithBudgetLeft ==
    /\ ~fnIn.deterministicMode
    /\ fnIn.retries.maxAttempts = 2
    /\ fnIn.answers[1].kind = "content"
    /\ fnIn.answers[1].content = "garbage"
    /\ ModelOutputError
    /\ Len(fnOut.calls) = 1
    /\ fnOut.onRetry = 0

-----------------------------------------------------------------------------
(* FairSpecRound: a round in which pLimit and the adapters make progress   *)
(*                                                                         *)
(* pLimit starts a queued task as soon as a slot is free, and every        *)
(* adapter.call ends, by its answer, its error or its timeoutMs; the sleep *)
(* of a retry ends as well.                                                *)

FairSpecRound ==
    /\ SpecRound
    /\ WF_vars(\E i \in DOMAIN agentState : StartAgent(i))
    /\ WF_vars(\E i \in DOMAIN agentState, outcome \in SampleCallOutcomes :
                  AdapterCallEnds(i, outcome))

\* C33: at every moment of a round the participants holding a slot of
\* pLimit (an adapter.call pending or a retry being waited for) number at
\* most concurrency.maxConcurrentRequests, and every configured
\* participant is eventually started.
C33_BoundedConcurrency ==
    /\ [](ActiveCount <= roundInput.config.concurrency.maxConcurrentRequests)
    /\ \A i \in 1..(MaxAgents + 1) :
          <>(i \in DOMAIN agentState => agentState[i].stage # "queued")

\* C33 witness: with one slot only, the second agent waited in the queue
\* while the first was tried again after a timeout, and holds the slot now
\* that the first has settled
C33_Witness ==
    /\ roundInput.config.concurrency.maxConcurrentRequests = 1
    /\ agentState[1].stage = "settled"
    /\ agentState[1].retries = 1
    /\ agentState[2].stage = "calling"
    /\ ActiveCount = 1

-----------------------------------------------------------------------------
(* SpecRunSteps: runDebate with its agent rounds run call by call          *)
(*                                                                         *)
(* The session and the round in progress side by side: roundInput is None  *)
(* between two rounds, and while runDebateRound is awaited the agents are  *)
(* started, called and settled one step at a time.  The onRetry callback   *)
(* the orchestrator passes to runDebateRound calls                         *)
(* stateManager.incrementRetries() when withRetry runs it.                 *)

\* cfg with its concurrency field
WithConcurrency(cfg, concurrency) ==
    [f \in DOMAIN cfg \cup {"concurrency"} |->
        IF f = "concurrency" THEN concurrency ELSE cfg[f]]

StepConfigs ==
    {WithConcurrency(c, [maxConcurrentRequests |-> n]) :
        c \in {b \in BaseConfigs : /\ ~b.judgePanelEnabled
                                   /\ b.maxAgentRounds = MaxAgentRounds},
        n \in 1..2}

\* What one adapter.call may come to in these runs
StepCallOutcomes ==
    {CallThrows("timeout", TRUE),
     CallReturns("garbage", NoData),
     CallReturns("valid", AgentData("yes", IdAb, NullText, 80)),
     CallReturns("valid", AgentData("no", NullId, TextAb, 60))}

InitRunSteps ==
    /\ config \in StepConfigs
    /\ session = StateManager(config, "init", <<>>, <<>>, 0)
    /\ now = 0 /\ pc = "start"
    /\ checkpoint = None /\ output = None /\ call = NoCall
    /\ NoRound /\ NoFn

\* The head of the loop body of runAgentDebatePhase: the round number, the
\* candidate, and the call of runDebateRound, which queues a task per agent
BeginRound ==
    /\ pc = "agent_debate"
    /\ MoreAgentRounds(session, config)
    /\ roundInput = None
    /\ \E constructible \in [1..Len(config.agents) -> BOOLEAN],
          input \in {DebateRoundInput(getCurrentAgentRound(session),
                                      CandidateFor(session))} :
          roundInput' = [round |-> input.round,
                         candidatePositionId |-> input.candidatePositionId,
                         candidatePositionText |->
                             input.candidatePositionText,
                         config |-> config,
                         constructible |-> constructible]
    /\ agentState' = [i \in 1..Len(config.agents) |-> QueuedAgent]
    /\ UNCHANGED <<runVars, roundResult, fnVars>>

\* The pending adapter.call of agent i ends; when withRetry goes on to
\* another attempt it runs onRetry, and the orchestrator's callback calls
\* stateManager.incrementRetries()
CallEndsInRun(i, outcome) ==
    /\ roundResult = None
    /\ agentState[i].stage = "calling"
    /\ \E after \in {AfterCall(i, outcome)} :
          /\ agentState' = [agentState EXCEPT ![i] = after]
          /\ session' = IF after.stage = "calling"
                        THEN incrementRetries(session)
                        ELSE session
    /\ UNCHANGED <<now, pc, config, checkpoint, output, call, roundInput,
                   roundResult, fnVars>>

\* runDebateRound has returned: the loop body from addAgentRound on, and
\* the end of runAgentDebatePhase when the loop is left
RecordRound ==
    /\ pc = "agent_debate"
    /\ roundResult # None
    /\ \E it \in {RecordAgentRound(session, config, checkpoint, roundResult,
                                   now)} :
         \E end \in {IF it.end.error # "none" \/ it.returned
                         \/ MoreAgentRounds(it.end.session, config)
                      THEN it.end
                      ELSE AfterAgentRounds(it.end.session, config, now)} :
            /\ session' = end.session
            /\ checkpoint' = it.checkpoint
            /\ pc' = IF end.error # "none" THEN "failed"
                     ELSE IF MoreAgentRounds(end.session, config)
                     THEN "agent_debate"
                     ELSE AfterAgentPhase(end.session)
    /\ now' = now + 1
    /\ roundInput' = None /\ agentState' = <<>> /\ roundResult' = None
    /\ UNCHANGED <<config, output, call, fnVars>>

\* Promise.all of the round in progress resolves
FinishRoundInRun == roundInput # None /\ FinishRound

NextRunSteps ==
    \/ StartDebate
    \/ BeginRound
    \/ \E i \in DOMAIN agentState : StartAgent(i)
    \/ \E i \in DOMAIN agentState, outcome \in StepCallOutcomes :
           CallEndsInRun(i, outcome)
    \/ FinishRoundInRun
    \/ RecordRound
    \/ BuildOutput

SpecRunSteps == InitRunSteps /\ [][NextRunSteps]_vars

\* runDebateRound is being awaited
RoundInProgress == roundInput # None

\* Agent i has been started in the round in progress
Started(i) == agentState[i].stage \in {"calling", "settled"}

\* C34: a round does not short-circuit.  A step of one participant, its
\* failure included, leaves every other participant of the round as it
\* was; a queued participant is never settled without its call unless its
\* adapter cannot be constructed; the RoundResult exists only once every
\* participant has settled, and holds the response of each in the order
\* of config.agents; and while any participant of a round has been
\* started, the round is the one after the rounds appended to the session,
\* so that no call of round r+1 starts before the result of round r is
\* appended.
C34_NoShortCircuit ==
    /\ [](RoundInProgress /\ roundResult # None =>
            /\ \A i \in DOMAIN agentState : agentState[i].stage = "settled"
            /\ Len(roundResult.responses) = Len(config.agents)
            /\ \A i \in DOMAIN agentState :
                  /\ roundResult.responses[i] = agentState[i].response
                  /\ roundResult.responses[i].agentId = config.agents[i])
    /\ [](RoundInProgress =>
            /\ DOMAIN agentState = 1..Len(config.agents)
            /\ roundInput.round = Len(session.agentRounds) + 1
            /\ \A k \in DOMAIN session.agentRounds :
                  session.agentRounds[k].roundNumber < roundInput.round)
    /\ [][RoundInProgress /\ RoundInProgress' =>
            /\ roundInput' = roundInput
            /\ session'.agentRounds = session.agentRounds
            /\ \A i \in DOMAIN agentState :
                  /\ agentState'[i] # agentState[i] =>
                        \A j \in DOMAIN agentState \ {i} :
                            agentState'[j] = agentState[j]
                  /\ agentState[i].stage = "settled" =>
                        agentState'[i] = agentState[i]
                  /\ agentState[i].stage = "queued"
                        /\ agentState'[i].stage = "settled" =>
                            ~roundInput.constructible[i]]_vars
    /\ [][~RoundInProgress /\ RoundInProgress' =>
            \A i \in DOMAIN agentState' : agentState'[i].stage = "queued"]_vars

\* C34 witness: in round 2 the first agent has failed (its answer was no
\* JSON) and the second agent, started after that, is being called
C34_Witness ==
    /\ RoundInProgress
    /\ roundInput.round = 2
    /\ Len(session.agentRounds) = 1
    /\ roundInput.config.concurrency.maxConcurrentRequests = 1
    /\ agentState[1].stage = "settled"
    /\ agentState[1].response.status = "error"
    /\ agentState[2].stage = "calling"

\* C34 second witness: the result of a round in which one agent failed and
\* the other answered
C34_WitnessResult ==
    /\ RoundInProgress
    /\ roundResult # None
    /\ roundResult.responses[1].status = "error"
    /\ roundResult.responses[2].status = "ok"

\* The counters of the session
Counters(s) ==
    <<s.metadata.totalTokens, s.metadata.totalErrors, s.metadata.totalRetries>>

\* An adapter call or a retry of the round in progress is in flight
CallInFlight ==
    /\ RoundInProgress
    /\ \E i \in DOMAIN agentState : agentState[i].stage = "calling"

\* C35: totalTokens, totalErrors and totalRetries change only between
\* rounds: no step changes one of them while an adapter call or a retry of
\* a round is in flight, before or after the step.
C35_CountersChangeBetweenRounds ==
    [][Counters(session') # Counters(session) =>
          ~CallInFlight /\ ~CallInFlight']_vars

\* What the code does hold to: totalTokens and totalErrors change only
\* when addAgentRound appends the result of a round whose agents have all
\* settled, and totalRetries changes by one, at the step in which a failed
\* call of the round in progress is handed to onRetry.
C35_CountersAsCoded ==
    [][/\ <<session'.metadata.totalTokens, session'.metadata.totalErrors>>
             # <<session.metadata.totalTokens, session.metadata.totalErrors>>
             => /\ roundResult # None
                /\ ~CallInFlight
                /\ Len(session'.agentRounds) = Len(session.agentRounds) + 1
       /\ session'.metadata.totalRetries # session.metadata.totalRetries
             => /\ session'.metadata.totalRetries =
                      session.metadata.totalRetries + 1
                /\ CallInFlight /\ CallInFlight'
                /\ \E i \in DOMAIN agentState :
                      agentState'[i].retries = agentState[i].retries + 1]_vars

\* totalRetries has been counted up while the other agent's call is still
\* pending and the round has no result
C35_RetryCountedMidRound ==
    /\ RoundInProgress
    /\ roundResult = None
    /\ roundInput.round = 1
    /\ session.metadata.totalRetries = 1
    /\ agentState[1].stage = "calling" /\ agentState[1].retries = 1
    /\ agentState[2].stage = "calling" /\ agentState[2].retries = 0

-----------------------------------------------------------------------------
(* Properties of the candidate of each round, on Spec                      *)

\* The candidate the recorded round was run with
CandidateOf(round) ==
    <<round.candidatePositionId, round.candidatePositionText>>

NullCandidate == <<NullId, NullText>>

\* No response of the round is ok, votes yes or no, and has a position
NoEligibleResponse(round) ==
    \A i \in DOMAIN round.responses : ~HasPosition(round.responses[i])

\* C36: round 1 of a session has the candidate (null, null); the candidate
\* of a round r >= 2 is what candidate selection makes of the responses of
\* round r - 1, and is (null, null) when none of them is an eligible
\* non-abstain response; a round run with the candidate (null, null) is
\* recorded like any other, without consensus.
C36_CandidateFromPreviousRound ==
    session # None =>
        \A r \in DOMAIN session.agentRounds :
            LET round == session.agentRounds[r]
            IN  /\ round.roundNumber = r
                /\ r = 1 => CandidateOf(round) = NullCandidate
                /\ r >= 2 =>
                      LET previous == session.agentRounds[r - 1]
                          selected == selectNextCandidate(previous.responses)
                      IN  /\ CandidateOf(round) =
                                <<selected.positionId, selected.positionText>>
                          /\ NoEligibleResponse(previous) <=>
                                CandidateOf(round) = NullCandidate
                /\ CandidateOf(round) = NullCandidate =>
                      /\ Len(round.responses) = Len(config.agents)
                      /\ ~round.consensusReached
                      /\ round.consensusPositionId = NullId

\* C36 witness: round 1 brought abstentions and a failure only, and round
\* 2 has been run with the candidate (null, null) and recorded
C36_Witness ==
    /\ session # None
    /\ Len(session.agentRounds) = 2
    /\ NoEligibleResponse(session.agentRounds[1])
    /\ \E i \in DOMAIN session.agentRounds[1].responses :
          session.agentRounds[1].responses[i].vote = "abstain"
             /\ session.agentRounds[1].responses[i].status = "ok"
    /\ CandidateOf(session.agentRounds[2]) = NullCandidate
    /\ ~session.agentRounds[2].consensusReached

\* C36 second witness: round 2 has been run with the position round 1's
\* responses selected
C36_WitnessSelected ==
    /\ session # None
    /\ Len(session.agentRounds) = 2
    /\ ~NoEligibleResponse(session.agentRounds[1])
    /\ CandidateOf(session.agentRounds[2]) # NullCandidate

-----------------------------------------------------------------------------
(* Confidences as IEEE 754 binary64 numbers                                *)
(*                                                                         *)
(* A JavaScript number is a binary64 value, and the mean of confidences is *)
(* computed by reduce((sum, e) => sum + e.confidence, 0) / length, every   *)
(* + and / rounding to the nearest binary64 value, ties to even.  The      *)
(* values met here are finite, not negative and below 2^LimbBits.  Such a  *)
(* value is kept as the natural number of units of                         *)
(* 2^-(FracLimbs * LimbBits) it is worth, and a natural number as the      *)
(* sequence of its digits in base 2^LimbBits, least significant first,     *)
(* without leading zeros (<<>> is 0).  A confidence is given in            *)
(* hundredths: c stands for the decimal literal c/100 of the JSON text.    *)

\* The significand of a binary64 value has 53 binary digits
SignificandBits == 53

LimbBits == 12
FracLimbs == 6
Base == 2^LimbBits

\* digits without its leading zeros
StripZeros(digits) ==
    LET nonzero == {i \in DOMAIN digits : digits[i] # 0}
    IN  IF nonzero = {} THEN <<>>
        ELSE SubSeq(digits, 1, CHOOSE m \in nonzero :
                                   \A k \in nonzero : k <= m)

\* digits * Base^k
ShiftLeft(digits, k) ==
    IF digits = <<>> THEN <<>> ELSE [i \in 1..k |-> 0] \o digits

DigitAt(digits, i) == IF i <= Len(digits) THEN digits[i] ELSE 0

\* a + b, exactly
RECURSIVE AddFrom(_, _, _, _)
AddFrom(a, b, i, carry) ==
    IF i > Len(a) /\ i > Len(b)
    THEN (IF carry = 1 THEN <<1>> ELSE <<>>)
    ELSE LET s == DigitAt(a, i) + DigitAt(b, i) + carry
         IN  <<s % Base>> \o AddFrom(a, b, i + 1, s \div Base)

AddDigits(a, b) == AddFrom(a, b, 1, 0)

\* Long division of digits by the small number n from digit i down: the
\* quotient and whether anything remains
RECURSIVE DivFrom(_, _, _, _, _)
DivFrom(digits, n, i, rem, quotient) ==
    IF i = 0 THEN [quotient |-> StripZeros(quotient), inexact |-> rem # 0]
    ELSE LET r == Base * rem + digits[i]
         IN  DivFrom(digits, n, i - 1, r % n, <<r \div n>> \o quotient)

DivSmall(digits, n) == DivFrom(digits, n, Len(digits), 0, <<>>)

\* The number of binary digits of digits
BitLength(digits) ==
    IF digits = <<>> THEN 0
    ELSE (Len(digits) - 1) * LimbBits
            + (CHOOSE b \in 1..LimbBits :
                  /\ 2^(b - 1) <= digits[Len(digits)]
                  /\ digits[Len(digits)] < 2^b)

\* Binary digit i of digits, the least significant being digit 1
BitAt(digits, i) ==
    (digits[((i - 1) \div LimbBits) + 1] \div 2^((i - 1) % LimbBits)) % 2

\* The m least significant binary digits of digits are zeros
LowBitsZero(digits, m) ==
    /\ \A j \in 1..(m \div LimbBits) : digits[j] = 0
    /\ m % LimbBits = 0
          \/ digits[(m \div LimbBits) + 1] % 2^(m % LimbBits) = 0

\* digits with its m least significant binary digits made zeros
ClearLowBits(digits, m) ==
    [j \in DOMAIN digits |->
        IF j <= m \div LimbBits THEN 0
        ELSE IF j = (m \div LimbBits) + 1
        THEN (digits[j] \div 2^(m % LimbBits)) * 2^(m % LimbBits)
        ELSE digits[j]]

\* 2^m
PowerOfTwo(m) == [j \in 1..(m \div LimbBits) |-> 0] \o <<2^(m % LimbBits)>>

\* The binary64 value nearest to digits (+ a fraction of a unit when
\* inexact), ties to even: the binary digits below the 53 leading ones
\* are rounded away
RoundToNearestEven(digits, inexact) ==
    IF BitLength(digits) <= SignificandBits THEN digits
    ELSE LET dropped == BitLength(digits) - SignificandBits
             half == BitAt(digits, dropped) = 1
             below == inexact \/ ~LowBitsZero(digits, dropped - 1)
             odd == BitAt(digits, dropped + 1) = 1
             truncated == ClearLowBits(digits, dropped)
         IN  IF half /\ (below \/ odd)
             THEN AddDigits(truncated, PowerOfTwo(dropped))
             ELSE truncated

\* The binary64 value of the decimal literal c/100
Binary64OfHundredths(c) ==
    LET q == DivSmall(ShiftLeft(<<c>>, FracLimbs), 100)
    IN  RoundToNearestEven(q.quotient, q.inexact)

\* x + y in binary64
Binary64Add(x, y) == RoundToNearestEven(AddDigits(x, y), FALSE)

\* x / n in binary64, for a count n: the quotient is computed to one more
\* digit, rounded, and the digit, which the rounding has made zero, dropped
Binary64DivideBy(x, n) ==
    LET q == DivSmall(ShiftLeft(x, 1), n)
    IN  IF x = <<>> THEN <<>>
        ELSE Tail(RoundToNearestEven(q.quotient, q.inexact))

\* x < y
Binary64Less(x, y) ==
    IF Len(x) # Len(y) THEN Len(x) < Len(y)
    ELSE \E i \in DOMAIN x :
            /\ x[i] < y[i]
            /\ \A k \in (i + 1)..Len(x) : x[k] = y[k]

\* evals.reduce((sum, e) => sum + e.confidence, 0)
RECURSIVE Binary64SumFrom(_, _)
Binary64SumFrom(evals, sum) ==
    IF evals = <<>> THEN sum
    ELSE Binary64SumFrom(Tail(evals),
            Binary64Add(sum, Binary64OfHundredths(Head(evals).confidence)))

\* evals.reduce((sum, e) => sum + e.confidence, 0) / evals.length
Binary64Mean(evals) ==
    Binary64DivideBy(Binary64SumFrom(evals, <<>>), Len(evals))

\* for (const [posId] of tiedPositions) if (avgConf > bestAvgConf) ...,
\* bestAvgConf being -1 (best.unset) before the first position
RECURSIVE TieBreakScanBinary64(_, _, _)
TieBreakScanBinary64(tiedPositions, eligible, best) ==
    IF tiedPositions = <<>> THEN best
    ELSE LET posId == Head(tiedPositions).id
             avgConf == Binary64Mean(EvaluationsFor(eligible, posId))
         IN  TieBreakScanBinary64(Tail(tiedPositions), eligible,
                IF best.unset \/ Binary64Less(best.bestAvgConf, avgConf)
                THEN [winnerId |-> posId, unset |-> FALSE,
                      bestAvgConf |-> avgConf]
                ELSE best)

\* detectJudgeConsensus with the means of confidence as binary64 values;
\* minConf is the decimal literal in hundredths.  Vote counts are integers,
\* and for the panels and thresholds modelled Math.ceil(eligible.length *
\* majorityThreshold) is the exact ceiling.
detectJudgeConsensusBinary64(evaluations, positions, majorityThreshold, minConf) ==
    LET eligible == SelectSeq(evaluations, IsEligibleEvaluation)
    IN  IF eligible = <<>>
        THEN [reached |-> FALSE, positionId |-> NullId,
              positionText |-> NullText, confidence |-> <<>>,
              dissents |-> <<>>]
        ELSE
        LET requiredVotes == Ceil(Len(eligible), majorityThreshold)
            sortedVotes == SortVotes(CountVotes(eligible, <<>>))
            plurality == PluralityScan(sortedVotes,
                            [winnerId |-> NullId, maxVotes |-> 0])
            maxVotes == plurality.maxVotes
            IsTied(v) == v.count = maxVotes
            tiedPositions == SelectSeq(sortedVotes, IsTied)
            winnerId ==
                IF Len(tiedPositions) > 1
                THEN TieBreakScanBinary64(tiedPositions, eligible,
                        [winnerId |-> plurality.winnerId, unset |-> TRUE,
                         bestAvgConf |-> <<>>]).winnerId
                ELSE plurality.winnerId
            avgConfidence == Binary64Mean(EvaluationsFor(eligible, winnerId))
            Dissents(e) == e.selectedPositionId # winnerId
            others == JudgeIds(SelectSeq(eligible, Dissents))
        IN  IF winnerId = NullId \/ maxVotes < requiredVotes
            THEN [reached |-> FALSE, positionId |-> winnerId,
                  positionText |->
                      IF winnerId # NullId
                      THEN PositionsGet(positions, winnerId) ELSE NullText,
                  confidence |-> <<>>,
                  dissents |-> JudgeIds(eligible)]
            ELSE IF Binary64Less(avgConfidence, Binary64OfHundredths(minConf))
            THEN [reached |-> FALSE, positionId |-> winnerId,
                  positionText |-> PositionsGet(positions, winnerId),
                  confidence |-> avgConfidence,
                  dissents |-> others]
            ELSE [reached |-> TRUE, positionId |-> winnerId,
                  positionText |-> PositionsGet(positions, winnerId),
                  confidence |-> avgConfidence,
                  dissents |-> others]

-----------------------------------------------------------------------------
(* SpecJudgeOrder: detectJudgeConsensus on a panel's evaluations, and on   *)
(* the same evaluations in another order                                   *)

MaxPanel == 3

\* An ok evaluation for one of the two positions with confidence 0.6, 0.7
\* or 0.8
PanelEvaluations ==
    {OkEvaluation(0, 1, id, {IdAb, IdC}, c) :
        id \in {IdAb, IdC}, c \in {60, 70, 80}}

\* The panel's evaluations in the order of the configured judges
InitJudgeOrder ==
    /\ NoRun /\ NoRound
    /\ \E es \in SeqsUpTo(PanelEvaluations, MaxPanel) :
          fnIn = [evaluations |->
                      [i \in 1..Len(es) |-> [es[i] EXCEPT !.judgeId = i]]]
    /\ fnOut = None

\* The caller passes the same evaluations in another order.
ReorderEvaluations ==
    /\ fnIn # None
    /\ \E i \in 1..(Len(fnIn.evaluations) - 1) :
           fnIn' = [fnIn EXCEPT
                      !.evaluations =
                          [@ EXCEPT ![i] = fnIn.evaluations[i + 1],
                                    ![i + 1] = fnIn.evaluations[i]]]
    /\ fnOut' = None
    /\ UNCHANGED <<runVars, roundVars>>

\* judgeConsensusThreshold 0.5, judgeMinConfidence 0.7
DetectOn(evaluations) ==
    detectJudgeConsensusBinary64(evaluations, SamplePositions, <<1, 2>>, 70)

CallDetectOnPanel ==
    /\ fnIn # None /\ fnOut = None
    /\ fnOut' = [kind |-> "detectJudgeConsensus",
                 result |-> DetectOn(fnIn.evaluations)]
    /\ UNCHANGED <<runVars, roundVars, fnIn>>

NextJudgeOrder == ReorderEvaluations \/ CallDetectOnPanel

SpecJudgeOrder == InitJudgeOrder /\ [][NextJudgeOrder]_vars

\* The same evaluations, ordered by judge
InJudgeOrder(evaluations) ==
    [i \in 1..Len(evaluations) |->
        CHOOSE e \in {evaluations[k] : k \in 1..Len(evaluations)} :
            e.judgeId = i]

SameVerdict(a, b) ==
    /\ a.positionId = b.positionId
    /\ a.reached = b.reached
    /\ a.confidence = b.confidence

\* C37: several positions tied on the maximum vote count are decided by the
\* higher mean confidence of their voters and then by the smaller
\* positionId, and the returned winner, reached flag and confidence are the
\* same for every ordering of the same evaluations.
C37_SameForEveryOrdering ==
    (fnOut # None /\ fnOut.kind = "detectJudgeConsensus") =>
        LET result == fnOut.result
            eligible == SelectSeq(fnIn.evaluations, IsEligibleEvaluation)
            votes == CountVotes(eligible, <<>>)
            VotesOf(id) ==
                Len(EvaluationsFor(eligible, id))
            MeanOf(id) == Binary64Mean(EvaluationsFor(eligible, id))
            voted == {votes[k].id : k \in 1..Len(votes)}
        IN  /\ SameVerdict(result, DetectOn(InJudgeOrder(fnIn.evaluations)))
            /\ \A id \in voted \ {result.positionId} :
                  \/ VotesOf(id) < VotesOf(result.positionId)
                  \/ /\ VotesOf(id) = VotesOf(result.positionId)
                     /\ \/ Binary64Less(MeanOf(id), MeanOf(result.positionId))
                        \/ /\ MeanOf(id) = MeanOf(result.positionId)
                           /\ localeCompare(result.positionId, id) < 0

\* As coded, the winner, the flag and the confidence are those of the same
\* evaluations in the order of the judges whenever the call's evaluations
\* are in that order; the winner has the most votes in every order.
C37_WinnerHasMostVotes ==
    (fnOut # None /\ fnOut.kind = "detectJudgeConsensus"
        /\ fnOut.result.positionId # NullId) =>
        LET eligible == SelectSeq(fnIn.evaluations, IsEligibleEvaluation)
        IN  \A e \in {eligible[k] : k \in 1..Len(eligible)} :
               Len(EvaluationsFor(eligible, e.selectedPositionId))
                   <= Len(EvaluationsFor(eligible, fnOut.result.positionId))

\* Three judges select one position with confidence 0.8, 0.7 and 0.6: in
\* that order the mean is 0.7000000000000001 and consensus is reached, in
\* the order 0.6, 0.7, 0.8 it is 0.6999999999999998 and it is not.
C37_OrderChangesReached ==
    /\ fnOut # None /\ fnOut.kind = "detectJudgeConsensus"
    /\ Len(fnIn.evaluations) = 3
    /\ fnOut.result.reached
    /\ ~DetectOn(InJudgeOrder(fnIn.evaluations)).reached
    /\ fnOut.result.positionId
         = DetectOn(InJudgeOrder(fnIn.evaluations)).positionId


-----------------------------------------------------------------------------
(* SpecRoundResult: the RoundResult runDebateRound builds from bounded     *)
(* responses, candidates and thresholds                                    *)

InitRoundResult ==
    /\ NoRun /\ NoRound
    /\ fnIn \in [responses : SeqsUpTo(SampleResponses, MaxResponses),
                  candidatePositionId : {NullId, IdAb, IdC},
                  threshold : Thresholds]
    /\ fnOut = None

\* engine.ts 91-109 on the collected responses
CallBuildRoundResult ==
    /\ fnOut = None
    /\ fnOut' =
          [kind |-> "RoundResult",
           result |->
               DetectAndBuild(
                   [round |-> 2,
                    candidatePositionId |-> fnIn.candidatePositionId,
                    candidatePositionText |->
                        IF fnIn.candidatePositionId = NullId THEN NullText
                        ELSE PositionsGet(SamplePositions,
                                          fnIn.candidatePositionId)],
                   [consensusThreshold |-> fnIn.threshold],
                   fnIn.responses, now)]
    /\ UNCHANGED <<runVars, roundVars, fnIn>>

NextRoundResult == CallBuildRoundResult

SpecRoundResult == InitRoundResult /\ [][NextRoundResult]_vars

\* C38: a RoundResult with consensusReached = true has consensusPositionId
\* equal to the round's non-null candidatePositionId, supermajorityReached
\* true, yes >= 1, yes >= supermajorityThreshold and (for a threshold in
\* [0.5, 1]) yes >= no; a RoundResult with consensusReached = false has
\* consensusPositionId null and supermajorityReached false.
C38_RoundResultConsensus ==
    (fnOut # None /\ fnOut.kind = "RoundResult") =>
        LET R == fnOut.result
            tally == R.voteTally
        IN  /\ R.consensusReached =>
                /\ R.candidatePositionId # NullId
                /\ R.consensusPositionId = R.candidatePositionId
                /\ tally.supermajorityReached
                /\ tally.yes >= 1
                /\ tally.yes >= tally.supermajorityThreshold
                /\ tally.yes >= tally.no
            /\ ~R.consensusReached =>
                /\ R.consensusPositionId = NullId
                /\ ~tally.supermajorityReached

\* A round reaches consensus by supermajority against a no vote
C38_Witness ==
    /\ fnOut # None /\ fnOut.kind = "RoundResult"
    /\ fnOut.result.consensusReached
    /\ fnOut.result.voteTally.no >= 1
    /\ fnOut.result.voteTally.yes < fnOut.result.voteTally.eligible

\* A round with a candidate and yes votes for it stays without consensus
C38_WitnessNotReached ==
    /\ fnOut # None /\ fnOut.kind = "RoundResult"
    /\ ~fnOut.result.consensusReached
    /\ fnOut.result.candidatePositionId # NullId
    /\ fnOut.result.voteTally.yes >= 1


-----------------------------------------------------------------------------
(* The phase recorded in a checkpoint                                      *)

\* C39: every checkpoint the orchestrator writes records a non-terminal
\* phase: agent_debate when written after an agent round and
\* judge_evaluation when written after a judge round, also when that round
\* reached consensus or was the last permitted round, because the
\* checkpoint is saved before the phase transition.
C39_CheckpointPhase ==
    /\ [](checkpoint # None =>
            /\ checkpoint.phase \in {"agent_debate", "judge_evaluation"}
            /\ checkpoint.phase = "agent_debate"
                  <=> checkpoint.judgeRounds = <<>>)
    /\ [][checkpoint' # checkpoint =>
            /\ pc \in {"agent_debate", "judge_evaluation"}
            /\ checkpoint'.phase = pc]_vars

\* The round just saved reached consensus: the session has gone on to
\* consensus_reached and the checkpoint holds agent_debate.
C39_Witness ==
    /\ checkpoint # None /\ session # None
    /\ session.phase = "consensus_reached"
    /\ checkpoint.agentRounds = session.agentRounds
    /\ checkpoint.judgeRounds = session.judgeRounds
    /\ checkpoint.phase = "agent_debate"
    /\ checkpoint.agentRounds[Len(checkpoint.agentRounds)].consensusReached

\* The last permitted judge round was saved and the session is deadlocked.
C39_WitnessLastRound ==
    /\ checkpoint # None /\ session # None
    /\ session.phase = "deadlock"
    /\ checkpoint.judgeRounds = session.judgeRounds
    /\ Len(checkpoint.judgeRounds) = config.maxJudgeRounds
    /\ checkpoint.phase = "judge_evaluation"


-----------------------------------------------------------------------------
(* SpecResumeLast: a run that completes, and a second runDebate resumed    *)
(* from the last checkpoint it wrote, under the same config                *)
(*                                                                         *)
(* output holds the DebateOutput of the first run until the second run     *)
(* builds its own; fnOut holds what loadCheckpoint returned to the second. *)

\* runDebate(config, {resumeFrom}) up to the return of loadCheckpoint, in a
\* new process started once the first has returned its output
LoadLastCheckpoint ==
    /\ pc = "done"
    /\ checkpoint # None
    /\ fnOut = None
    /\ fnIn' = [file |-> CheckpointFile(checkpoint, NoKey),
                hmacKey |-> NoKey]
    /\ fnOut' = loadCheckpoint(fnIn'.file, NoKey)
    /\ call' = [op |-> "loadCheckpoint", arg |-> "resumeFrom",
                error |-> fnOut'.error]
    /\ pc' = IF fnOut'.error # "none" THEN "failed" ELSE "loaded"
    /\ session' = None
    /\ UNCHANGED <<now, config, checkpoint, output, roundVars>>

NextResumeLast == RunStep \/ LoadLastCheckpoint

SpecResumeLast == InitResume /\ [][NextResumeLast]_vars

\* The resumed run has come to buildOutput; output is still the first run's.
ResumedRunEnds == fnOut # None /\ pc = "build_output"

SameOutcome(s, out) ==
    /\ s.phase = out.session.phase
    /\ buildOutput(s).finalVerdict.positionId = out.finalVerdict.positionId
    /\ buildOutput(s).finalVerdict.source = out.finalVerdict.source

NoFurtherRound(s, data) ==
    /\ s.agentRounds = data.agentRounds
    /\ s.judgeRounds = data.judgeRounds

\* C40: resuming runDebate from the last checkpoint written by a run that
\* completed (its final round reached consensus, or it ended in deadlock)
\* ends in the same terminal phase with the same final verdict position and
\* source as the original run, without running any additional agent or
\* judge round.
C40_ResumeOfCompletedRun ==
    ResumedRunEnds =>
        /\ SameOutcome(session, output)
        /\ NoFurtherRound(session, fnOut.data)

\* As coded, this holds of the runs that ended in deadlock.
C40_ResumeOfDeadlockedRun ==
    (ResumedRunEnds /\ output.session.phase = "deadlock") =>
        /\ SameOutcome(session, output)
        /\ NoFurtherRound(session, fnOut.data)

\* A run that ended in consensus_reached by agent consensus in its last
\* permitted round is resumed and ends in deadlock without a further round.
C40_ResumeEndsInDeadlock ==
    /\ ResumedRunEnds
    /\ output.session.phase = "consensus_reached"
    /\ output.finalVerdict.source = "agent_consensus"
    /\ NoFurtherRound(session, fnOut.data)
    /\ session.phase = "deadlock"
    /\ buildOutput(session).finalVerdict.source = "deadlock"

\* The same of a run that ended by judge consensus in the last permitted
\* judge round.
C40_ResumeOfJudgeConsensus ==
    /\ ResumedRunEnds
    /\ output.session.phase = "consensus_reached"
    /\ output.finalVerdict.source = "judge_consensus"
    /\ NoFurtherRound(session, fnOut.data)
    /\ session.phase = "deadlock"
    /\ buildOutput(session).finalVerdict.positionId
          = output.finalVerdict.positionId
====
